---- MODULE Spec2Model ----
(***************************************************************************)
(* Model of the BLE advertisement text engine of geogram-tdongle:          *)
(* src/src/ble/ble.cpp (validator, dedup ring, inflight assembler, event   *)
(* bus) and src/src/ble/bluetoothmessage.cpp (parcel split / reassembly).  *)
(*                                                                         *)
(* Strings are sequences of byte values (0..255).  Code positions are      *)
(* 0-based as in the source; position i of the source is element i+1 here. *)
(* 32-bit unsigned values are records [hi, lo] of two 16-bit halves, all   *)
(* arithmetic on them is modulo 2^32.                                      *)
(***************************************************************************)
EXTENDS Integers, Sequences, FiniteSets, TLC

\* ------------------------------------------------------------------------
\* Characters
\* ------------------------------------------------------------------------
MARKER == 62
COLON == 58
CH_A == 65
CH_Z == 90
CH_0 == 48
CH_9 == 57
CH_MINUS == 45
CH_PLUS == 43

EmptyStr == << >>

\* ------------------------------------------------------------------------
\* 32-bit unsigned arithmetic (uint32_t), as pairs of 16-bit halves
\* ------------------------------------------------------------------------
HALF == 65536

U32(n) == [hi |-> (n \div HALF) % HALF, lo |-> n % HALF]

U32Zero == [hi |-> 0, lo |-> 0]

U32Add(a, b) ==
  LET l == a.lo + b.lo
      h == a.hi + b.hi + (l \div HALF)
  IN  [hi |-> h % HALF, lo |-> l % HALF]

U32Sub(a, b) ==
  LET l == a.lo - b.lo
      borrow == IF l < 0 THEN 1 ELSE 0
      h == a.hi - b.hi - borrow
  IN  [hi |-> (h + 2 * HALF) % HALF, lo |-> (l + HALF) % HALF]

U32Lt(a, b) == a.hi < b.hi \/ (a.hi = b.hi /\ a.lo < b.lo)
U32Gt(a, b) == U32Lt(b, a)
U32Ge(a, b) == ~U32Lt(a, b)

\* ------------------------------------------------------------------------
\* Arduino String operations used by the code
\* ------------------------------------------------------------------------
Min(a, b) == IF a < b THEN a ELSE b

\* String::indexOf(ch, from): 0-based position of the first ch at or after
\* from, -1 when there is none.
IndexOfFrom(s, ch, from) ==
  LET hits == {i \in 0..(Len(s) - 1) : i >= from /\ s[i + 1] = ch}
  IN  IF hits = {} THEN -1
      ELSE CHOOSE i \in hits : \A j \in hits : i <= j

IndexOf(s, ch) == IndexOfFrom(s, ch, 0)

\* String::substring(left, right): characters left..right-1; the bounds are
\* swapped when left > right, right is capped to the length, and the result
\* is empty when left is past the end.
Substring(s, left, right) ==
  LET l0 == IF left > right THEN right ELSE left
      r0 == IF left > right THEN left ELSE right
      r1 == Min(r0, Len(s))
  IN  IF l0 >= Len(s) \/ l0 < 0 THEN EmptyStr
      ELSE SubSeq(s, l0 + 1, r1)

SubstringFrom(s, left) == Substring(s, left, Len(s))

IsDigit(c) == c >= CH_0 /\ c <= CH_9

\* Number of leading decimal digits of s starting at 0-based position p.
RECURSIVE DigitRun(_, _)
DigitRun(s, p) ==
  IF p < Len(s) /\ IsDigit(s[p + 1]) THEN 1 + DigitRun(s, p + 1) ELSE 0

RECURSIVE DigitsValue(_, _, _)
DigitsValue(s, p, n) ==
  IF n = 0 THEN 0
  ELSE DigitsValue(s, p, n - 1) * 10 + (s[p + n] - CH_0)

\* String::toInt() (atol): optional sign, then the leading decimal digits;
\* 0 when no digit follows.
ToInt(s) ==
  LET neg == Len(s) > 0 /\ s[1] = CH_MINUS
      p   == IF Len(s) > 0 /\ (s[1] = CH_MINUS \/ s[1] = CH_PLUS) THEN 1 ELSE 0
      v   == DigitsValue(s, p, DigitRun(s, p))
  IN  IF neg THEN 0 - v ELSE v

\* String(int): the decimal digits of a non-negative value.
RECURSIVE StringOfInt(_)
StringOfInt(n) ==
  IF n < 10 THEN <<CH_0 + n>>
  ELSE StringOfInt(n \div 10) \o <<CH_0 + (n % 10)>>

\* StringLess / String::compareTo (strcmp order): lexicographic by bytes, a
\* proper prefix sorting first.
RECURSIVE StringLessFrom(_, _, _)
StringLessFrom(a, b, i) ==
  IF i > Len(b) THEN FALSE
  ELSE IF i > Len(a) THEN TRUE
  ELSE IF a[i] # b[i] THEN a[i] < b[i]
  ELSE StringLessFrom(a, b, i + 1)

StringLess(a, b) == StringLessFrom(a, b, 1)

\* The keys of a std::map<String,String,StringLess> in iteration order.
RECURSIVE SortedKeys(_)
SortedKeys(keys) ==
  IF keys = {} THEN << >>
  ELSE LET k == CHOOSE x \in keys : \A y \in keys \ {x} : StringLess(x, y)
       IN  <<k>> \o SortedKeys(keys \ {k})

\* String(const char*): the bytes up to the first NUL.
CString(s) ==
  LET z == IndexOf(s, 0)
  IN  IF z < 0 THEN s ELSE SubSeq(s, 1, z)

\* strncpy(dst, src, cap-1); dst[cap-1] = 0: the first cap-1 bytes.
Truncate(s, cap) == SubSeq(s, 1, Min(Len(s), cap - 1))

\* ------------------------------------------------------------------------
\* BluetoothMessage (bluetoothmessage.cpp)
\* ------------------------------------------------------------------------
TEXT_LENGTH_PER_PARCEL == 20

\* BluetoothMessage::BluetoothMessage(): the empty assembly.  messageBox is
\* the std::map parcelId -> full parcel text, a function on its key set.
\* The const timeStamp member is never read by the engine and is left out.
NewBluetoothMessage ==
  [messageCompleted |-> FALSE,
   id               |-> EmptyStr,
   idFromSender     |-> EmptyStr,
   idDestination    |-> EmptyStr,
   message          |-> EmptyStr,
   checksum         |-> EmptyStr,
   messageBox       |-> << >>]

\* Sum of the byte values of s.
RECURSIVE ByteSum(_, _, _)
ByteSum(s, lo, hi) ==
  IF lo > hi THEN 0
  ELSE IF lo = hi THEN s[lo]
  ELSE LET mid == (lo + hi) \div 2
       IN  ByteSum(s, lo, mid) + ByteSum(s, mid + 1, hi)

\* A calculateChecksum whose test for the empty string is inverted: every
\* string gets the checksum of the empty one.
calculateChecksum_inverted(data) ==
  <<CH_A, CH_A, CH_A, CH_A>>

\* BluetoothMessage::calculateChecksum: four letters, the base-26 digits of
\* the byte sum, least significant first; "AAAA" for the empty string.
calculateChecksum(data) ==
  IF Len(data) = 0 THEN <<CH_A, CH_A, CH_A, CH_A>>
  ELSE LET sum == ByteSum(data, 1, Len(data))
       IN  <<CH_A + (sum % 26),
             CH_A + ((sum \div 26) % 26),
             CH_A + ((sum \div (26 * 26)) % 26),
             CH_A + ((sum \div (26 * 26 * 26)) % 26)>>

\* A test for a missing colon that takes the empty text too.
isSingleCommand_anyLength(s) == IndexOf(s, COLON) < 0

\* BluetoothMessage::isSingleCommand
isSingleCommand(s) == Len(s) > 0 /\ IndexOf(s, COLON) < 0

\* An insert that drops what the map held.
MapInsert_alone(box, k, v) == [x \in {k} |-> v]

\* std::map::insert: keeps the existing entry when the key is present.
MapInsert(box, k, v) ==
  IF k \in DOMAIN box THEN box
  ELSE [x \in (DOMAIN box) \cup {k} |-> IF x = k THEN v ELSE box[x]]

\* The reassembly loop of addMessageParcel: in key order, the part after the
\* first colon of every parcel whose key has length >= 3 and index >= 1.
RECURSIVE ConcatData(_, _, _)
ConcatData(box, keys, i) ==
  IF i > Len(keys) THEN EmptyStr
  ELSE LET key  == keys[i]
           full == box[key]
           a    == IndexOf(full, COLON)
           part == IF Len(key) >= 3 /\ ToInt(SubstringFrom(key, 2)) >= 1 /\ a >= 0
                   THEN SubstringFrom(full, a + 1)
                   ELSE EmptyStr
       IN  part \o ConcatData(box, keys, i + 1)

\* The keys ordered by the number after the session id.
RECURSIVE SortedByIndex(_)
SortedByIndex(keys) ==
  IF keys = {} THEN << >>
  ELSE LET k == CHOOSE x \in keys :
                  \A y \in keys \ {x} :
                    \/ ToInt(SubstringFrom(x, 2)) < ToInt(SubstringFrom(y, 2))
                    \/ ToInt(SubstringFrom(x, 2)) = ToInt(SubstringFrom(y, 2))
                       /\ StringLess(x, y)
       IN  <<k>> \o SortedByIndex(keys \ {k})

KeyOrder_numeric(box) == SortedByIndex(DOMAIN box)

KeyOrder(box) == SortedKeys(DOMAIN box)

Reassemble(box) == ConcatData(box, KeyOrder(box), 1)

\* A lookup that finds no key.
AlreadyStored_never(box, parcelId) == FALSE

\* messageBox.find(parcelId) != messageBox.end()
AlreadyStored(box, parcelId) == parcelId \in DOMAIN box

\* BluetoothMessage::addMessageParcel: the message after the call.
addMessageParcel(bm, messageParcel) ==
  IF bm.messageCompleted THEN bm
  ELSE IF isSingleCommand(messageParcel) THEN
    [bm EXCEPT !.message = messageParcel,
               !.messageBox = MapInsert(bm.messageBox, <<CH_0, CH_0, CH_0>>, messageParcel),
               !.messageCompleted = TRUE]
  ELSE
    LET colon == IndexOf(messageParcel, COLON) IN
    IF colon < 0 THEN bm
    ELSE
      LET parcelId == Substring(messageParcel, 0, colon) IN
      IF AlreadyStored(bm.messageBox, parcelId) THEN bm
      ELSE
        LET box1 == MapInsert(bm.messageBox, parcelId, messageParcel)
            bm1  == [bm EXCEPT !.messageBox = box1]
        IN
        IF Len(parcelId) < 3 THEN bm1
        ELSE
          LET index == ToInt(SubstringFrom(parcelId, 2))
              bm2   == IF Len(bm1.id) = 0
                       THEN [bm1 EXCEPT !.id = Substring(parcelId, 0, 2)]
                       ELSE bm1
          IN
          IF index < 0 THEN bm2
          ELSE IF index = 0 THEN
            LET p1 == IndexOf(messageParcel, COLON)
                p2 == IndexOfFrom(messageParcel, COLON, p1 + 1)
                p3 == IndexOfFrom(messageParcel, COLON, p2 + 1)
            IN
            IF p1 > 0 /\ p2 > p1 /\ p3 > p2 THEN
              [bm2 EXCEPT !.idFromSender  = Substring(messageParcel, p1 + 1, p2),
                          !.idDestination = Substring(messageParcel, p2 + 1, p3),
                          !.id            = Substring(parcelId, 0, 2),
                          !.checksum      = SubstringFrom(messageParcel, p3 + 1)]
            ELSE bm2
          ELSE IF Cardinality(DOMAIN bm2.messageBox) < 2 THEN bm2
          ELSE IF Len(bm2.checksum) = 0 THEN bm2
          ELSE
            LET result == Reassemble(bm2.messageBox)
                cur    == calculateChecksum(result)
            IN
            IF cur = bm2.checksum
            THEN [bm2 EXCEPT !.message = result, !.messageCompleted = TRUE]
            ELSE bm2

\* A sequence of std::map::insert calls, first a's then b's: an entry of a
\* wins over one of b with the same key.
MapInsertAll(a, b) ==
  [k \in (DOMAIN a) \cup (DOMAIN b) |-> IF k \in DOMAIN a THEN a[k] ELSE b[k]]

\* The data parcel that iteration i (i = 0, 1, ...) of the loop of
\* splitDataIntoParcels inserts: key "<id><i+1>", text "<key>:<chunk>".
DataParcel(bm, i) ==
  LET dataLength == Len(bm.message)
      start   == i * TEXT_LENGTH_PER_PARCEL
      end     == Min(start + TEXT_LENGTH_PER_PARCEL, dataLength)
      text    == Substring(bm.message, start, end)
      uid     == bm.id \o StringOfInt(i + 1)
      payload == uid \o <<COLON>> \o text
  IN  MapInsert(<< >>, uid, payload)

\* The inserts of iterations lo..hi of that loop, in order.
RECURSIVE SplitLoop(_, _, _)
SplitLoop(bm, lo, hi) ==
  IF lo > hi THEN << >>
  ELSE IF lo = hi THEN DataParcel(bm, lo)
  ELSE LET mid == (lo + hi) \div 2
       IN  MapInsertAll(SplitLoop(bm, lo, mid), SplitLoop(bm, mid + 1, hi))

\* BluetoothMessage::splitDataIntoParcels: the sender's messageBox, a header
\* parcel "<id>0:<from>:<to>:<checksum>" and ceil(len / chunk) data parcels
\* "<id><i>:<chunk>", i = 1, 2, ...
splitDataIntoParcels(bm) ==
  LET dataLength == Len(bm.message)
      parcels    == (dataLength + TEXT_LENGTH_PER_PARCEL - 1) \div TEXT_LENGTH_PER_PARCEL
      uidHeader  == bm.id \o <<CH_0>>
      header     == uidHeader \o <<COLON>> \o bm.idFromSender \o <<COLON>>
                    \o bm.idDestination \o <<COLON>> \o bm.checksum
      box0       == MapInsert(bm.messageBox, uidHeader, header)
  IN  [bm EXCEPT !.messageBox = MapInsertAll(box0, SplitLoop(bm, 0, parcels - 1))]

\* BluetoothMessage(from, to, text, singleMessage = false) with the random
\* 2-letter id given as an input.
ComposeMessage(id2, from, to, messageToSend) ==
  splitDataIntoParcels(
    [messageCompleted |-> FALSE,
     id               |-> id2,
     idFromSender     |-> from,
     idDestination    |-> to,
     message          |-> messageToSend,
     checksum         |-> calculateChecksum(messageToSend),
     messageBox       |-> << >>])


\* ------------------------------------------------------------------------
\* Tunables of ble.cpp / ble.h
\* ------------------------------------------------------------------------
DEDUP_WINDOW_MS == 2000
MIN_SINGLE_LEN == 5
INFLIGHT_TTL_MS == 600000
BLE_EVT_QUEUE_DEPTH == 32
BLE_EVT_DELIVER_BUDGET == 12
BLE_EVT_MAX_TEXT == 192
BLE_MAX_SUBSCRIBERS == 4
ADV_TEXT_MAX == 24
SEEN_N == 128
INFLIGHT_N == 676
BLE_EVT_NONE == 0
BLE_EVT_SINGLE_TEXT == 1
BLE_EVT_MESSAGE_DONE == 2
FROM_CAP == 8
TO_CAP == 8
CHECKSUM_CAP == 5

\* ------------------------------------------------------------------------
\* Validator
\* ------------------------------------------------------------------------
RECURSIVE BitAnd(_, _)
BitAnd(a, b) ==
  IF a = 0 \/ b = 0 THEN 0
  ELSE 2 * BitAnd(a \div 2, b \div 2) + (IF a % 2 = 1 /\ b % 2 = 1 THEN 1 ELSE 0)

RECURSIVE BitOr(_, _)
BitOr(a, b) ==
  IF a = 0 THEN b
  ELSE IF b = 0 THEN a
  ELSE 2 * BitOr(a \div 2, b \div 2) + (IF a % 2 = 1 \/ b % 2 = 1 THEN 1 ELSE 0)

\* is_valid_utf8_line(p, n), from 0-based position i; s holds the n bytes.
RECURSIVE Utf8From(_, _)
Utf8From(s, i) ==
  LET n == Len(s) IN
  IF i >= n THEN TRUE
  ELSE
    LET c == s[i + 1] IN
    IF c < 32 \/ c = 127 THEN FALSE
    ELSE IF c < 128 THEN Utf8From(s, i + 1)
    ELSE IF BitAnd(c, 224) = 192 THEN
      IF i + 1 >= n THEN FALSE
      ELSE LET c1 == s[i + 2]
               cp == BitOr(BitAnd(c, 31) * 64, BitAnd(c1, 63))
           IN  IF BitAnd(c1, 192) # 128 THEN FALSE
               ELSE IF cp < 128 THEN FALSE
               ELSE Utf8From(s, i + 2)
    ELSE IF BitAnd(c, 240) = 224 THEN
      IF i + 2 >= n THEN FALSE
      ELSE LET c1 == s[i + 2]
               c2 == s[i + 3]
               cp == BitOr(BitOr(BitAnd(c, 15) * 4096, BitAnd(c1, 63) * 64),
                           BitAnd(c2, 63))
           IN  IF BitAnd(BitOr(c1, c2), 192) # 128 THEN FALSE
               ELSE IF cp < 2048 THEN FALSE
               ELSE IF cp >= 55296 /\ cp <= 57343 THEN FALSE
               ELSE Utf8From(s, i + 3)
    ELSE IF BitAnd(c, 248) = 240 THEN
      IF i + 3 >= n THEN FALSE
      ELSE LET c1 == s[i + 2]
               c2 == s[i + 3]
               c3 == s[i + 4]
               cp == BitOr(BitOr(BitAnd(c, 7) * 262144, BitAnd(c1, 63) * 4096),
                           BitOr(BitAnd(c2, 63) * 64, BitAnd(c3, 63)))
           IN  IF BitAnd(BitOr(BitOr(c1, c2), c3), 192) # 128 THEN FALSE
               ELSE IF cp < 65536 \/ cp > 1114111 THEN FALSE
               ELSE Utf8From(s, i + 4)
    ELSE FALSE

is_valid_utf8_line(s) == Utf8From(s, 0)

IsUpper(c) == c >= CH_A /\ c <= CH_Z

\* is_parcel_like(s, n): two capitals, at least one digit, then a colon.
is_parcel_like(s) ==
  IF Len(s) < 4 THEN FALSE
  ELSE IF ~(IsUpper(s[1]) /\ IsUpper(s[2])) THEN FALSE
  ELSE IF ~IsDigit(s[3]) THEN FALSE
  ELSE LET i == 2 + DigitRun(s, 2)
       IN  i < Len(s) /\ s[i + 1] = COLON

\* inflight_index_2(id2)
inflight_index_2(s) ==
  IF ~IsUpper(s[1]) \/ ~IsUpper(s[2]) THEN -1
  ELSE (s[1] - CH_A) * 26 + (s[2] - CH_A)

\* ------------------------------------------------------------------------
\* Fixed arrays of the program whose elements start zero-initialised are
\* held as the finite map of the elements that differ from the initial
\* value; every other index reads as that value.
\* ------------------------------------------------------------------------
ArrGet(arr, i, zero) == IF i \in DOMAIN arr THEN arr[i] ELSE zero

ArrSet(arr, i, v, zero) ==
  IF v = zero
  THEN [x \in (DOMAIN arr) \ {i} |-> arr[x]]
  ELSE [x \in (DOMAIN arr) \cup {i} |-> IF x = i THEN v ELSE arr[x]]

ArrInit == << >>

\* ------------------------------------------------------------------------
\* Dedup ring
\* ------------------------------------------------------------------------
SeenIdx == 0..(SEEN_N - 1)

EmptySeen == [key |-> EmptyStr, ts |-> U32Zero]

SeenAt(ring, i) == ArrGet(ring, i, EmptySeen)

\* Variant: an entry exactly as old as the window counts as expired.
SeenExpired_inclusive(e, now_ms, window) ==
  Len(e.key) # 0 /\ U32Ge(U32Sub(now_ms, e.ts), window)

SeenExpired(e, now_ms, window) ==
  Len(e.key) # 0 /\ U32Gt(U32Sub(now_ms, e.ts), window)

\* A match test that never matches.
SeenMatch_never(e, key, now_ms, window) == FALSE

SeenMatch(e, key, now_ms, window) ==
  Len(e.key) # 0 /\ ~SeenExpired(e, now_ms, window) /\ e.key = key

\* A scan that stamps the matching entry with the time of the repeat.
seen_recently_payload_refresh(ring, head, window, key, now_ms) ==
  LET hits == {i \in DOMAIN ring : SeenMatch(ring[i], key, now_ms, window)}
      m    == IF hits = {} THEN SEEN_N
              ELSE CHOOSE i \in hits : \A j \in hits : i <= j
      scanned == [i \in DOMAIN ring |->
                    IF i < m /\ SeenExpired(ring[i], now_ms, window)
                    THEN [ring[i] EXCEPT !.key = EmptyStr]
                    ELSE IF i = m THEN [ring[i] EXCEPT !.ts = now_ms]
                    ELSE ring[i]]
  IN  IF m < SEEN_N
      THEN [seen |-> TRUE, ring |-> scanned, head |-> head]
      ELSE [seen |-> FALSE,
            ring |-> ArrSet(scanned, head, [key |-> key, ts |-> now_ms], EmptySeen),
            head |-> (head + 1) % SEEN_N]

\* seen_recently_payload(key, now_ms): the scan stops at the first live
\* entry equal to key; expired entries met before that point are cleared;
\* without a match the key is written at the cursor, which advances.
seen_recently_payload(ring, head, window, key, now_ms) ==
  LET hits == {i \in DOMAIN ring : SeenMatch(ring[i], key, now_ms, window)}
      m    == IF hits = {} THEN SEEN_N
              ELSE CHOOSE i \in hits : \A j \in hits : i <= j
      scanned == [i \in DOMAIN ring |->
                    IF i < m /\ SeenExpired(ring[i], now_ms, window)
                    THEN [ring[i] EXCEPT !.key = EmptyStr]
                    ELSE ring[i]]
  IN  IF m < SEEN_N
      THEN [seen |-> TRUE, ring |-> scanned, head |-> head]
      ELSE [seen |-> FALSE,
            ring |-> ArrSet(scanned, head, [key |-> key, ts |-> now_ms], EmptySeen),
            head |-> (head + 1) % SEEN_N]

\* ------------------------------------------------------------------------
\* Inflight assembler slots
\* ------------------------------------------------------------------------
InflightIdx == 0..(INFLIGHT_N - 1)

\* An inflight_reset that leaves the slot as it is.
inflight_reset_noop(slot) == slot

\* inflight_reset(slot)
inflight_reset(slot) == [bm |-> NewBluetoothMessage, lastTouchMs |-> U32Zero]

EmptySlot == [bm |-> NewBluetoothMessage, lastTouchMs |-> U32Zero]

\* The condition under which inflight_sweep(now) resets a slot.
SweepHits(slot, now) ==
  /\ slot.lastTouchMs # U32Zero
  /\ ~slot.bm.messageCompleted
  /\ U32Ge(U32Sub(now, slot.lastTouchMs), U32(INFLIGHT_TTL_MS))

SlotAt(inflight, i) == ArrGet(inflight, i, EmptySlot)

\* inflight_sweep(now)
inflight_sweep(inflight, now) ==
  LET kept == {i \in DOMAIN inflight :
                 ~SweepHits(inflight[i], now)
                 \/ inflight_reset(inflight[i]) # EmptySlot}
  IN  [i \in kept |->
         IF SweepHits(inflight[i], now) THEN inflight_reset(inflight[i])
         ELSE inflight[i]]

\* ------------------------------------------------------------------------
\* Event queue (one slot of the ring stays unused: full is next(head) = tail)
\* ------------------------------------------------------------------------
QIdx == 0..(BLE_EVT_QUEUE_DEPTH - 1)

Q_NEXT(i) == (i + 1) % BLE_EVT_QUEUE_DEPTH

\* BleEvent ev = {}; pub is the publication number of the event, a history
\* field that the program does not hold.
ZeroData == [text |-> EmptyStr, text_len |-> 0]
ZeroEvent == [type |-> BLE_EVT_NONE, data |-> ZeroData, pub |-> 0]

\* A critical section entered whoever holds the lock.
MuxAdmits_always(mux) == TRUE

\* portENTER_CRITICAL(&g_evt_mux) returns once nobody holds the lock.
MuxAdmits(mux) == mux = "free"

q_full(Q) == Q_NEXT(Q.head) = Q.tail
q_empty(Q) == Q.head = Q.tail

\* A q_push that evicts without counting.
q_push_uncounted(Q, e) ==
  [q       |-> [Q.q EXCEPT ![Q.head] = e],
   head    |-> Q_NEXT(Q.head),
   tail    |-> IF Q_NEXT(Q.head) = Q.tail THEN Q_NEXT(Q.tail) ELSE Q.tail,
   dropped |-> Q.dropped]

\* q_push(e) on the queue Q = [q, head, tail, dropped]
q_push(Q, e) ==
  LET tail1    == IF q_full(Q) THEN Q_NEXT(Q.tail) ELSE Q.tail
      dropped1 == IF q_full(Q) THEN Q.dropped + 1 ELSE Q.dropped
  IN  [q       |-> [Q.q EXCEPT ![Q.head] = e],
       head    |-> Q_NEXT(Q.head),
       tail    |-> tail1,
       dropped |-> dropped1]

\* A q_pop that takes the newest event instead of the oldest.
q_pop_newest(Q) ==
  IF Q.head # Q.tail
  THEN LET last == (Q.head + BLE_EVT_QUEUE_DEPTH - 1) % BLE_EVT_QUEUE_DEPTH
       IN  [ok |-> TRUE, out |-> Q.q[last], Q |-> [Q EXCEPT !.head = last]]
  ELSE [ok |-> FALSE, out |-> Q.q[Q.tail], Q |-> Q]

\* A q_pop that reports an empty queue whatever it holds.
q_pop_nothing(Q) == [ok |-> FALSE, out |-> ZeroEvent, Q |-> Q]

\* q_pop(out): [ok, out, Q]
q_pop(Q) ==
  IF ~q_empty(Q)
  THEN [ok |-> TRUE, out |-> Q.q[Q.tail],
        Q |-> [Q EXCEPT !.tail = Q_NEXT(Q.tail)]]
  ELSE [ok |-> FALSE, out |-> ZeroEvent, Q |-> Q]

\* Number of events held by the queue.
QLen(Q) == (Q.head - Q.tail + BLE_EVT_QUEUE_DEPTH) % BLE_EVT_QUEUE_DEPTH

\* The queued events, oldest first.
QContents(Q) == [k \in 1..QLen(Q) |-> Q.q[(Q.tail + k - 1) % BLE_EVT_QUEUE_DEPTH]]

\* ------------------------------------------------------------------------
\* Events built by AdvCb::onResult
\* ------------------------------------------------------------------------
SingleTextEvent(payload, rssi, mac, pub) ==
  LET copyN == IF Len(payload) < BLE_EVT_MAX_TEXT - 1
               THEN Len(payload) ELSE BLE_EVT_MAX_TEXT - 1
  IN  [type |-> BLE_EVT_SINGLE_TEXT,
       data |-> [text     |-> SubSeq(payload, 1, copyN),
                 text_len |-> copyN,
                 rssi     |-> rssi,
                 mac      |-> mac],
       pub  |-> pub]

\* A MessageDone event with sender and destination exchanged.
MessageDoneEvent_swapped(content, bm, pub) ==
  LET msg == bm.message
      sN  == IF Len(msg) < BLE_EVT_MAX_TEXT - 1
             THEN Len(msg) ELSE BLE_EVT_MAX_TEXT - 1
  IN  [type |-> BLE_EVT_MESSAGE_DONE,
       data |-> [id       |-> <<content[1], content[2]>>,
                 from     |-> Truncate(bm.idDestination, FROM_CAP),
                 to       |-> Truncate(bm.idFromSender, TO_CAP),
                 checksum |-> Truncate(bm.checksum, CHECKSUM_CAP),
                 msg_len  |-> Len(msg),
                 snippet  |-> SubSeq(msg, 1, sN)],
       pub  |-> pub]

MessageDoneEvent(content, bm, pub) ==
  LET msg == bm.message
      sN  == IF Len(msg) < BLE_EVT_MAX_TEXT - 1
             THEN Len(msg) ELSE BLE_EVT_MAX_TEXT - 1
  IN  [type |-> BLE_EVT_MESSAGE_DONE,
       data |-> [id       |-> <<content[1], content[2]>>,
                 from     |-> Truncate(bm.idFromSender, FROM_CAP),
                 to       |-> Truncate(bm.idDestination, TO_CAP),
                 checksum |-> Truncate(bm.checksum, CHECKSUM_CAP),
                 msg_len  |-> Len(msg),
                 snippet  |-> SubSeq(msg, 1, sN)],
       pub  |-> pub]


\* ------------------------------------------------------------------------
\* State
\* ------------------------------------------------------------------------
VARIABLES
  g_seen,          \* SeenEntry g_seen[128]
  g_seen_head,     \* write cursor of the dedup ring
  g_dedupe_ms,     \* dedup window (uint32)
  g_inflight,      \* Inflight g_inflight[26*26]
  g_evt_q,         \* BleEvent g_evt_q[BLE_EVT_QUEUE_DEPTH]
  g_evt_head,
  g_evt_tail,
  g_evt_dropped,
  g_evt_mux,       \* owner of the critical section: "free", "ingest", "tick"
  g_subs,          \* Sub g_subs[BLE_MAX_SUBSCRIBERS]
  millis,          \* the millisecond clock (uint32)
  pcP,             \* position of the ingest callback (radio context)
  prod,            \* its locals
  pcC,             \* position of ble_tick (main loop context)
  cons,            \* its locals
  tx,              \* the sender's BluetoothMessage of the round trip: its place in Messages, 0 before it is composed
  g_scan,          \* BLEScan* g_scan is set (not nullptr)
  g_scanActive,    \* bool g_scanActive
  adv,             \* the advertiser: whether it is on air, and its service data
  pcS,             \* position of ble_send_text (main loop context)
  snd,             \* its arguments, locals and return value
  radioLog,        \* history: the scan and advertiser operations of the latest ble_send_text call
  g_fs,            \* message log: fs::FS* g_fs is set (not nullptr)
  g_curSeq,        \* size_t g_curSeq
  g_curFile,       \* File g_curFile: whether it is open, and on which segment
  g_curBytes,      \* size_t g_curBytes
  g_sinceFlush,    \* size_t g_sinceFlush
  g_seenChecksums, \* std::unordered_set<std::string> g_seenChecksums
  fsSegments,      \* the segment files of the directory: sequence number -> records
  fsSeqFile,       \* the file ".seq": whether it exists, and its text
  msgCall,         \* history: the latest message-log call, its arguments and result
  msgOpened,       \* history: the sequence numbers given to new segments
  messageCompleted, \* whether the application defines the weak hook messageCompleted()
  hookLog,         \* history: per call of the hook, the message passed and the events published by then
  published,       \* history: every event given to q_push, in order
  calls,           \* history: every subscriber callback invocation, in order
  popped,          \* history: per event returned by q_pop, its publication number and the number published by then
  subLog,          \* history: per successful subscribe, slot and events published before
  slotSub,         \* history: the subscription currently held by each slot
  ingestLog,       \* history: every onResult call (payload, time, outcome)
  nAdvance         \* history: number of clock advances

dedupVars == <<g_seen, g_seen_head, g_dedupe_ms>>
asmVars   == <<g_inflight>>
queueVars == <<g_evt_q, g_evt_head, g_evt_tail, g_evt_dropped>>
muxVars   == <<g_evt_mux>>
subVars   == <<g_subs, subLog, slotSub>>
clockVars == <<millis, nAdvance>>
procVars  == <<pcP, prod, pcC, cons>>
msgVars   == <<g_fs, g_curSeq, g_curFile, g_curBytes, g_sinceFlush,
               g_seenChecksums, fsSegments, fsSeqFile, msgCall, msgOpened>>
hookVars  == <<messageCompleted, hookLog>>
radioVars == <<g_scan, g_scanActive, adv, pcS, snd, radioLog, msgVars, hookVars>>
txVars    == <<tx, g_scan, g_scanActive, adv, pcS, snd, radioLog, msgVars, hookVars>>
busHist   == <<published, calls, popped>>
ingHist   == <<ingestLog>>

vars == <<g_seen, g_seen_head, g_dedupe_ms, g_inflight, g_evt_q, g_evt_head,
          g_evt_tail, g_evt_dropped, g_evt_mux, g_subs, millis, pcP, prod,
          pcC, cons, tx, g_scan, g_scanActive, adv, pcS, snd, radioLog,
          g_fs, g_curSeq, g_curFile, g_curBytes, g_sinceFlush,
          g_seenChecksums, fsSegments, fsSeqFile, msgCall, msgOpened,
          messageCompleted, hookLog, published, calls, popped, subLog, slotSub, ingestLog, nAdvance>>

SubIdx == 0..(BLE_MAX_SUBSCRIBERS - 1)

NoSub == [cb |-> 0, ctx |-> 0, used |-> 0]

NoMessage == [none |-> TRUE]

IdleProd == [idle |-> TRUE]
IdleCons == [idle |-> TRUE]
IdleSend == [idle |-> TRUE]

\* The advertiser before any burst: off air, no service data.
AdvOff == [on |-> FALSE, data |-> EmptyStr]

TheQueue == [q |-> g_evt_q, head |-> g_evt_head, tail |-> g_evt_tail,
             dropped |-> g_evt_dropped]

\* The state after static initialisation; the clock value of the first
\* callback is whatever the uptime is.
\* No file is open, and the directory is as an earlier run left it.
ClosedFile == [open |-> FALSE, seq |-> 0]
NoSeqFile == [exists |-> FALSE, text |-> EmptyStr]
EmptyDisk == [segments |-> << >>, seqFile |-> NoSeqFile]
NoCall == [n |-> 0, op |-> "none"]

InitLinked(clock, disk, hook) ==
  /\ messageCompleted = hook
  /\ hookLog = << >>
  /\ g_fs = FALSE
  /\ g_curSeq = 0
  /\ g_curFile = ClosedFile
  /\ g_curBytes = 0
  /\ g_sinceFlush = 0
  /\ g_seenChecksums = {}
  /\ fsSegments = disk.segments
  /\ fsSeqFile = disk.seqFile
  /\ msgCall = NoCall
  /\ msgOpened = << >>
  /\ g_seen = ArrInit
  /\ g_seen_head = 0
  /\ g_dedupe_ms = U32(DEDUP_WINDOW_MS)
  /\ g_inflight = ArrInit
  /\ g_evt_q = [i \in QIdx |-> ZeroEvent]
  /\ g_evt_head = 0
  /\ g_evt_tail = 0
  /\ g_evt_dropped = 0
  /\ g_evt_mux = "free"
  /\ g_subs = [i \in SubIdx |-> NoSub]
  /\ millis = clock
  /\ pcP = "idle"
  /\ prod = IdleProd
  /\ pcC = "idle"
  /\ cons = IdleCons
  /\ tx = 0
  /\ g_scan = FALSE
  /\ g_scanActive = FALSE
  /\ adv = AdvOff
  /\ pcS = "idle"
  /\ snd = IdleSend
  /\ radioLog = << >>
  /\ published = << >>
  /\ calls = << >>
  /\ popped = << >>
  /\ subLog = << >>
  /\ slotSub = [i \in SubIdx |-> 0]
  /\ ingestLog = << >>
  /\ nAdvance = 0

\* No definition of the weak hook is linked in: main.cpp defines none.
InitOn(clock, disk) == InitLinked(clock, disk, FALSE)

InitAt(clock) == InitOn(clock, EmptyDisk)

\* ------------------------------------------------------------------------
\* AdvCb::onResult, as a function of the state it reads
\* ------------------------------------------------------------------------
\* A dedup whose key is the payload together with the sender's address.
IngestGate_byAddress(d, ring, head, window, now) ==
  LET sd      == d.sd
      content == SubSeq(sd, 2, Len(sd))
      valid   == /\ d.have
                 /\ Len(sd) > 0
                 /\ sd[1] = MARKER
                 /\ Len(sd) >= 2
                 /\ is_valid_utf8_line(content)
                 /\ Len(content) >= MIN_SINGLE_LEN
      payload == CString(sd)
      r       == seen_recently_payload(ring, head, window, payload \o d.mac, now)
  IN  IF ~valid
      THEN [valid |-> FALSE, accept |-> FALSE, payload |-> payload,
            content |-> content, ring |-> ring, head |-> head]
      ELSE [valid |-> TRUE, accept |-> ~r.seen, payload |-> payload,
            content |-> content, ring |-> r.ring, head |-> r.head]

\* Lines 228-248: validation and dedup.  accept is whether the callback
\* goes on to publish; the ring is scanned only when validation passed.
IngestGate(d, ring, head, window, now) ==
  LET sd      == d.sd
      content == SubSeq(sd, 2, Len(sd))
      valid   == /\ d.have
                 /\ Len(sd) > 0
                 /\ sd[1] = MARKER
                 /\ Len(sd) >= 2
                 /\ is_valid_utf8_line(content)
                 /\ Len(content) >= MIN_SINGLE_LEN
      payload == CString(sd)
      r       == seen_recently_payload(ring, head, window, payload, now)
  IN  IF ~valid
      THEN [valid |-> FALSE, accept |-> FALSE, payload |-> payload,
            content |-> content, ring |-> ring, head |-> head]
      ELSE [valid |-> TRUE, accept |-> ~r.seen, payload |-> payload,
            content |-> content, ring |-> r.ring, head |-> r.head]

\* A feed that makes a reassembly attempt after every parcel, the header
\* included.
IngestAssemble_retry(content, inflight, now) ==
  IF is_parcel_like(content) /\ inflight_index_2(content) >= 0
  THEN LET idx  == inflight_index_2(content)
           bm   == addMessageParcel(SlotAt(inflight, idx).bm, CString(content))
           text == Reassemble(bm.messageBox)
           done == /\ Cardinality(DOMAIN bm.messageBox) >= 2
                   /\ Len(bm.checksum) > 0
                   /\ calculateChecksum(text) = bm.checksum
       IN  [fed  |-> TRUE, idx |-> idx,
            slot |-> [bm |-> IF done
                             THEN [bm EXCEPT !.message = text, !.messageCompleted = TRUE]
                             ELSE bm,
                      lastTouchMs |-> now]]
  ELSE [fed |-> FALSE, idx |-> 0, slot |-> EmptySlot]

\* Lines 270-276: feed the assembler.  [fed, idx, slot]: whether a slot was
\* touched, which, and its value after addMessageParcel and the touch.
IngestAssemble(content, inflight, now) ==
  IF is_parcel_like(content) /\ inflight_index_2(content) >= 0
  THEN LET idx  == inflight_index_2(content)
           body == CString(content)
       IN  [fed  |-> TRUE, idx |-> idx,
            slot |-> [bm |-> addMessageParcel(SlotAt(inflight, idx).bm, body),
                      lastTouchMs |-> now]]
  ELSE [fed |-> FALSE, idx |-> 0, slot |-> EmptySlot]

\* The whole callback on a state given as a record; the result has the new
\* ring, cursor, inflight table and queue, and the events it published.
onResultOutcome(d, st) ==
  LET now == st.millis
      g   == IngestGate(d, st.ring, st.head, st.window, now)
  IN  IF ~g.accept
      THEN [accepted |-> FALSE, valid |-> g.valid, ring |-> g.ring, head |-> g.head,
            inflight |-> st.inflight, Q |-> st.Q, events |-> << >>,
            snaps |-> << >>]
      ELSE
        LET ev  == SingleTextEvent(g.payload, d.rssi, d.mac, st.npub + 1)
            Q1  == q_push(st.Q, ev)
            a   == IngestAssemble(g.content, st.inflight, now)
            done == a.fed /\ a.slot.bm.messageCompleted
            ev2 == MessageDoneEvent(g.content, a.slot.bm, st.npub + 2)
            Q2  == IF done THEN q_push(Q1, ev2) ELSE Q1
            slot1 == IF done THEN inflight_reset(a.slot) ELSE a.slot
            inf1  == IF a.fed THEN ArrSet(st.inflight, a.idx, slot1, EmptySlot)
                     ELSE st.inflight
        IN  [accepted |-> TRUE, valid |-> TRUE, ring |-> g.ring, head |-> g.head,
             inflight |-> inflight_sweep(inf1, now),
             Q |-> Q2,
             events |-> IF done THEN <<ev, ev2>> ELSE <<ev>>,
             snaps  |-> IF done THEN <<NoMessage, a.slot.bm>> ELSE <<NoMessage>>]

EngineState ==
  [millis |-> millis, ring |-> g_seen, head |-> g_seen_head,
   window |-> g_dedupe_ms, inflight |-> g_inflight, Q |-> TheQueue,
   npub |-> Len(published)]

\* A published-history entry: the event, and for MessageDone the slot's
\* message as it stood when completion was detected.
PubEntries(o) == [k \in 1..Len(o.events) |-> [ev |-> o.events[k], snap |-> o.snaps[k]]]

\* AdvCb::onResult(d), run to completion.
onResult(d) ==
  \E o \in {onResultOutcome(d, EngineState)} :
  /\ pcP = "idle"
  /\ g_evt_mux = "free"
  /\ g_seen' = o.ring
  /\ g_seen_head' = o.head
  /\ g_inflight' = o.inflight
  /\ g_evt_q' = o.Q.q
  /\ g_evt_head' = o.Q.head
  /\ g_evt_tail' = o.Q.tail
  /\ g_evt_dropped' = o.Q.dropped
  /\ published' = published \o PubEntries(o)
  /\ ingestLog' = Append(ingestLog,
                         [sd |-> d.sd, now |-> millis, valid |-> o.valid,
                          accepted |-> o.accepted, npub |-> Len(o.events),
                          window |-> g_dedupe_ms, mac |-> d.mac])
  /\ UNCHANGED <<g_dedupe_ms, muxVars, subVars, clockVars, procVars, txVars,
                 calls, popped>>

\* ------------------------------------------------------------------------
\* Event bus: subscribe, unsubscribe, tick
\* ------------------------------------------------------------------------
FreeSlots == {i \in SubIdx : g_subs[i].used = 0}

\* A token that is the slot index itself.
SubscribeToken_zeroBased(subs, cb) ==
  LET free == {i \in SubIdx : subs[i].used = 0}
  IN  IF cb = 0 \/ free = {} THEN 0
      ELSE CHOOSE i \in free : \A j \in free : i <= j

\* ble_subscribe(cb, user_ctx): the token, 0 on failure; cons keeps the
\* arguments and the returned token.
SubscribeToken(subs, cb) ==
  LET free == {i \in SubIdx : subs[i].used = 0}
  IN  IF cb = 0 \/ free = {} THEN 0
      ELSE (CHOOSE i \in free : \A j \in free : i <= j) + 1

ble_subscribe(cb, user_ctx) ==
  \E token \in {SubscribeToken(g_subs, cb)} :
  /\ pcC = "idle"
  /\ IF token = 0
     THEN UNCHANGED <<g_subs, subLog, slotSub>>
     ELSE /\ g_subs' = [g_subs EXCEPT ![token - 1] = [cb |-> cb, ctx |-> user_ctx, used |-> 1]]
          /\ subLog' = Append(subLog, [slot |-> token - 1, cb |-> cb, ctx |-> user_ctx,
                                       before |-> Len(published)])
          /\ slotSub' = [slotSub EXCEPT ![token - 1] = Len(subLog) + 1]
  /\ cons' = [cb |-> cb, ctx |-> user_ctx, token |-> token]
  /\ UNCHANGED <<dedupVars, asmVars, queueVars, muxVars, clockVars, pcP, prod,
                 pcC, txVars, busHist, ingHist>>

\* An unsubscribe that clears slot token instead of slot token - 1.
UnsubscribeTable_offByOne(subs, token) ==
  IF token <= 0 THEN subs
  ELSE IF token < BLE_MAX_SUBSCRIBERS
       THEN [subs EXCEPT ![token] = NoSub]
       ELSE subs

\* ble_unsubscribe(token): the table after the call.
UnsubscribeTable(subs, token) ==
  IF token <= 0 THEN subs
  ELSE IF token - 1 < BLE_MAX_SUBSCRIBERS
       THEN [subs EXCEPT ![token - 1] = NoSub]
       ELSE subs

\* ble_unsubscribe(token) called by the holder of subscription number who
\* (0: a caller not identified); cons keeps the argument and the caller.
ble_unsubscribe_by(who, token) ==
  /\ pcC = "idle"
  /\ g_subs' = UnsubscribeTable(g_subs, token)
  /\ slotSub' = IF token >= 1 /\ token - 1 < BLE_MAX_SUBSCRIBERS
                THEN [slotSub EXCEPT ![token - 1] = 0] ELSE slotSub
  /\ cons' = [unsub |-> token, by |-> who]
  /\ UNCHANGED <<subLog, dedupVars, asmVars, queueVars, muxVars, clockVars,
                 pcP, prod, pcC, txVars, busHist, ingHist>>

ble_unsubscribe(token) == ble_unsubscribe_by(0, token)

\* The callback invocations of one popped event: every in-use slot with a
\* callback, in ascending slot order.
RECURSIVE DeliverFrom(_, _, _, _)
DeliverFrom(e, subs, owner, i) ==
  IF i >= BLE_MAX_SUBSCRIBERS THEN << >>
  ELSE (IF subs[i].used # 0 /\ subs[i].cb # 0
        THEN <<[sub |-> owner[i], slot |-> i, cb |-> subs[i].cb,
                ctx |-> subs[i].ctx, ev |-> e]>>
        ELSE << >>) \o DeliverFrom(e, subs, owner, i + 1)

\* The same invocations in descending slot order.
Deliver_descending(e, subs, owner) ==
  LET up == DeliverFrom(e, subs, owner, 0)
  IN  [k \in 1..Len(up) |-> up[Len(up) + 1 - k]]

Deliver(e, subs, owner) == DeliverFrom(e, subs, owner, 0)

\* The loop of ble_tick on queue Q with budget left: [Q, calls, popped].
RECURSIVE TickLoop(_, _, _, _)
TickLoop(Q, budget, subs, owner) ==
  IF budget <= 0 THEN [Q |-> Q, calls |-> << >>, popped |-> << >>]
  ELSE CHOOSE t \in
         {IF ~r.ok THEN [Q |-> Q, calls |-> << >>, popped |-> << >>]
          ELSE CHOOSE u \in
                 {[Q |-> rest.Q,
                   calls |-> Deliver(r.out, subs, owner) \o rest.calls,
                   popped |-> <<r.out.pub>> \o rest.popped]
                    : rest \in {TickLoop(r.Q, budget - 1, subs, owner)}} : TRUE
            : r \in {q_pop(Q)}} : TRUE

\* ble_tick(), run to completion.
ble_tick ==
  \E t \in {TickLoop(TheQueue, BLE_EVT_DELIVER_BUDGET, g_subs, slotSub)} :
  /\ pcC = "idle"
  /\ g_evt_mux = "free"
  /\ g_evt_q' = t.Q.q
  /\ g_evt_head' = t.Q.head
  /\ g_evt_tail' = t.Q.tail
  /\ g_evt_dropped' = t.Q.dropped
  /\ calls' = calls \o t.calls
  /\ popped' = popped \o [k \in 1..Len(t.popped) |->
                          [pub |-> t.popped[k], npub |-> Len(published)]]
  /\ UNCHANGED <<published, dedupVars, asmVars, muxVars, subVars, clockVars,
                 procVars, txVars, ingHist>>

\* ------------------------------------------------------------------------
\* Tools
\* ------------------------------------------------------------------------
\* ble_set_dedup_window(ms)
ble_set_dedup_window(ms) ==
  /\ g_dedupe_ms' = IF ms # U32Zero THEN ms ELSE U32(1)
  /\ UNCHANGED <<g_seen, g_seen_head, asmVars, queueVars, muxVars, subVars,
                 clockVars, procVars, txVars, busHist, ingHist>>

\* ble_inflight_purge_now()
ble_inflight_purge_now ==
  /\ g_inflight' = inflight_sweep(g_inflight,
                                  U32Add(U32Add(millis, U32(INFLIGHT_TTL_MS)), U32(1)))
  /\ UNCHANGED <<dedupVars, queueVars, muxVars, subVars, clockVars, procVars,
                 txVars, busHist, ingHist>>

\* The clock moves on by d milliseconds.
Advance(d) ==
  /\ millis' = U32Add(millis, U32(d))
  /\ nAdvance' = nAdvance + 1
  /\ UNCHANGED <<dedupVars, asmVars, queueVars, muxVars, subVars, procVars,
                 txVars, busHist, ingHist>>


\* ------------------------------------------------------------------------
\* Inputs
\* ------------------------------------------------------------------------
\* ">HELLO", ">HI"
P_HELLO == <<62, 72, 69, 76, 76, 79>>
P_HI    == <<62, 72, 73>>
\* Session AA, message "HelloWorld" in two hand-cut parcels:
\* ">AA0:SND:DST:GNBA", ">AA1:Hello", ">AA2:World"
T_HelloWorld == <<72, 101, 108, 108, 111, 87, 111, 114, 108, 100>>
P_A0 == <<62, 65, 65, 48, 58, 83, 78, 68, 58, 68, 83, 84, 58>>
        \o calculateChecksum(T_HelloWorld)
P_A1 == <<62, 65, 65, 49, 58, 72, 101, 108, 108, 111>>
P_A2 == <<62, 65, 65, 50, 58, 87, 111, 114, 108, 100>>
\* A later session with the same id AA, message "Howdy", sender "CALLSIGN9":
\* ">AA0:CALLSIGN9:D2:<checksum>", ">AA1:Howdy"
T_Howdy == <<72, 111, 119, 100, 121>>
P_B0 == <<62, 65, 65, 48, 58, 67, 65, 76, 76, 83, 73, 71, 78, 57, 58, 68, 50, 58>>
        \o calculateChecksum(T_Howdy)
P_B1 == <<62, 65, 65, 49, 58, 72, 111, 119, 100, 121>>

MAC_1 == <<1, 2, 3, 4, 5, 6>>

Adv(sd) == [have |-> TRUE, sd |-> sd, rssi |-> -40, mac |-> MAC_1]

\* Uptime at the first callback: 0, and shortly before the 32-bit wrap.
ClockStarts == {U32Zero, [hi |-> HALF - 1, lo |-> HALF - 500]}

\* ------------------------------------------------------------------------
\* Spec: the ingest path (validator, dedup, assembler, sweeper, publish)
\* with the clock, every callback run to completion
\* ------------------------------------------------------------------------
MaxIngest == 3
MaxAdvance == 2

Adverts == {Adv(P_HELLO), Adv(P_A0), Adv(P_A1), Adv(P_A2), Adv(P_B0), Adv(P_B1)}

\* Clock steps: just past the dedup window, and the inflight TTL.
Deltas == {DEDUP_WINDOW_MS + 1, INFLIGHT_TTL_MS}

Init == \E c \in ClockStarts : InitAt(c)

Ingest == \E d \in Adverts : Len(ingestLog) < MaxIngest /\ onResult(d)

Clock == \E d \in Deltas : nAdvance < MaxAdvance /\ Advance(d)

Next == Ingest \/ Clock

Spec == Init /\ [][Next]_vars

\* ------------------------------------------------------------------------
\* SpecBus: the event bus (publish by ingest, drain, subscribe, unsubscribe)
\* ------------------------------------------------------------------------
MaxBusIngest == 4
MaxDrained == 3
MaxSubscribe == 2

\* ">TEXT<n>": a fresh single text for every n.
FloodText(n) == <<62, 84, 69, 88, 84>> \o StringOfInt(n)

\* The n-th advertisement received: the three parcels of session AA (the
\* third completes the message and publishes two events), then fresh texts.
BusPayload(n) ==
  IF n = 1 THEN P_A0
  ELSE IF n = 2 THEN P_A1
  ELSE IF n = 3 THEN P_A2
  ELSE FloodText(n)

Callbacks == {1}

BusInit == InitAt(U32Zero)

BusIngest == /\ Len(ingestLog) < MaxBusIngest
             /\ onResult(Adv(BusPayload(Len(ingestLog) + 1)))

Tick == Len(popped) < MaxDrained /\ ble_tick

Subscribe == \E cb \in Callbacks : Len(subLog) < MaxSubscribe /\ ble_subscribe(cb, 0)

Unsubscribe == \E t \in 1..BLE_MAX_SUBSCRIBERS :
                 g_subs[t - 1].used # 0 /\ ble_unsubscribe(t)

BusNext == BusIngest \/ Tick \/ Subscribe \/ Unsubscribe

SpecBus == BusInit /\ [][BusNext]_vars


\* ------------------------------------------------------------------------
\* SpecQueue: a flood of fresh texts into the event queue, drained by
\* ble_tick for one subscriber
\* ------------------------------------------------------------------------
MaxTicks == 3

\* One more than the queue depth.
FloodLen == BLE_EVT_QUEUE_DEPTH + 1

\* Ticks that found the queue non-empty.
TicksDone == Cardinality({popped[k].npub : k \in 1..Len(popped)})

QueueInit == InitAt(U32Zero)

QueueIngest == /\ Len(ingestLog) < FloodLen
               /\ onResult(Adv(FloodText(Len(ingestLog) + 1)))

QueueTick == /\ TicksDone < MaxTicks
             /\ ~q_empty(TheQueue)
             /\ ble_tick

QueueSubscribe == \E cb \in Callbacks :
                    /\ subLog = << >>
                    /\ ingestLog = << >>
                    /\ ble_subscribe(cb, 0)

QueueNext == QueueIngest \/ QueueTick \/ QueueSubscribe

SpecQueue == QueueInit /\ [][QueueNext]_vars

\* ------------------------------------------------------------------------
\* SpecDedup: one payload returning among a flood of other payloads, with
\* the clock
\* ------------------------------------------------------------------------
MaxProbe == 3
MaxDedupAdvance == 1

\* The numbers of other payloads after which the probe may come and the
\* clock may move: none, and around the size of the ring.
ProbePoints == {0, SEEN_N - 1, SEEN_N}

Probes == {k \in 1..Len(ingestLog) : ingestLog[k].sd = P_HELLO}

Fillers == Len(ingestLog) - Cardinality(Probes)

\* Clock steps: the dedup window exactly, and one millisecond more.
DedupDeltas == {DEDUP_WINDOW_MS, DEDUP_WINDOW_MS + 1}

DedupInit == \E c \in ClockStarts : InitAt(c)

DedupProbe == /\ Fillers \in ProbePoints
              /\ Cardinality(Probes) < MaxProbe
              /\ onResult(Adv(P_HELLO))

DedupFiller == /\ Fillers < SEEN_N + 1
               /\ onResult(Adv(FloodText(Fillers + 1)))

DedupClock == \E d \in DedupDeltas :
                /\ Fillers \in ProbePoints
                /\ nAdvance < MaxDedupAdvance
                /\ Advance(d)

DedupNext == DedupProbe \/ DedupFiller \/ DedupClock

SpecDedup == DedupInit /\ [][DedupNext]_vars

\* ------------------------------------------------------------------------
\* SpecConc: q_push in the radio context and q_pop in the main loop, one
\* statement at a time
\* ------------------------------------------------------------------------
MaxConcIngest == 32
MaxConcPops == 1

\* AdvCb::onResult up to its first q_push.  Validation, dedup and the
\* assembler touch only state of the radio context; their result is kept
\* in prod and stored when the callback returns.
ConcBegin ==
  \E o \in {onResultOutcome(Adv(BusPayload(Len(ingestLog) + 1)), EngineState)} :
  /\ pcP = "idle"
  /\ Len(ingestLog) < MaxConcIngest
  /\ prod' = [d |-> Adv(BusPayload(Len(ingestLog) + 1)), o |-> o, k |-> 1]
  /\ pcP' = IF o.accepted THEN "enter" ELSE "return"
  /\ UNCHANGED <<dedupVars, asmVars, queueVars, muxVars, subVars, clockVars,
                 pcC, cons, txVars, busHist, ingHist>>

\* q_push: portENTER_CRITICAL
PushEnter ==
  /\ pcP = "enter"
  /\ MuxAdmits(g_evt_mux)
  /\ g_evt_mux' = "ingest"
  /\ published' = Append(published, PubEntries(prod.o)[prod.k])
  /\ pcP' = "evict"
  /\ UNCHANGED <<dedupVars, asmVars, queueVars, subVars, clockVars, prod,
                 pcC, cons, txVars, calls, popped, ingHist>>

\* q_push: if (q_full()) { g_evt_tail = Q_NEXT(g_evt_tail); ++g_evt_dropped; }
PushEvict ==
  /\ pcP = "evict"
  /\ IF q_full(TheQueue)
     THEN /\ g_evt_tail' = Q_NEXT(g_evt_tail)
          /\ g_evt_dropped' = g_evt_dropped + 1
     ELSE UNCHANGED <<g_evt_tail, g_evt_dropped>>
  /\ pcP' = "storeType"
  /\ UNCHANGED <<dedupVars, asmVars, g_evt_q, g_evt_head, muxVars, subVars,
                 clockVars, prod, pcC, cons, txVars, busHist, ingHist>>

\* q_push: g_evt_q[g_evt_head] = *e, the tag first
PushStoreType ==
  /\ pcP = "storeType"
  /\ g_evt_q' = [g_evt_q EXCEPT ![g_evt_head].type = prod.o.events[prod.k].type,
                                ![g_evt_head].pub = prod.o.events[prod.k].pub]
  /\ pcP' = "storeData"
  /\ UNCHANGED <<dedupVars, asmVars, g_evt_head, g_evt_tail, g_evt_dropped,
                 muxVars, subVars, clockVars, prod, pcC, cons, txVars, busHist,
                 ingHist>>

\* q_push: g_evt_q[g_evt_head] = *e, then the union
PushStoreData ==
  /\ pcP = "storeData"
  /\ g_evt_q' = [g_evt_q EXCEPT ![g_evt_head].data = prod.o.events[prod.k].data]
  /\ pcP' = "head"
  /\ UNCHANGED <<dedupVars, asmVars, g_evt_head, g_evt_tail, g_evt_dropped,
                 muxVars, subVars, clockVars, prod, pcC, cons, txVars, busHist,
                 ingHist>>

\* q_push: g_evt_head = Q_NEXT(g_evt_head)
PushHead ==
  /\ pcP = "head"
  /\ g_evt_head' = Q_NEXT(g_evt_head)
  /\ pcP' = "exit"
  /\ UNCHANGED <<dedupVars, asmVars, g_evt_q, g_evt_tail, g_evt_dropped,
                 muxVars, subVars, clockVars, prod, pcC, cons, txVars, busHist,
                 ingHist>>

\* q_push: portEXIT_CRITICAL; the callback goes on to its second q_push
\* when the parcel completed a message, else to its end.
PushExit ==
  /\ pcP = "exit"
  /\ g_evt_mux' = "free"
  /\ IF prod.k < Len(prod.o.events)
     THEN /\ prod' = [prod EXCEPT !.k = prod.k + 1]
          /\ pcP' = "enter"
     ELSE /\ pcP' = "return"
          /\ UNCHANGED prod
  /\ UNCHANGED <<dedupVars, asmVars, queueVars, subVars, clockVars, pcC, cons,
                 txVars, busHist, ingHist>>

\* AdvCb::onResult returns: the dedup ring and the inflight table are as
\* the callback left them.
ConcReturn ==
  /\ pcP = "return"
  /\ g_seen' = prod.o.ring
  /\ g_seen_head' = prod.o.head
  /\ g_inflight' = prod.o.inflight
  /\ ingestLog' = Append(ingestLog,
                         [sd |-> prod.d.sd, now |-> millis, valid |-> prod.o.valid,
                          accepted |-> prod.o.accepted, npub |-> Len(prod.o.events),
                          window |-> g_dedupe_ms])
  /\ pcP' = "idle"
  /\ prod' = IdleProd
  /\ UNCHANGED <<g_dedupe_ms, queueVars, muxVars, subVars, clockVars, pcC, cons,
                 txVars, busHist>>

\* ble_tick: BleEvent e; int budget = BLE_EVT_DELIVER_BUDGET;
TickBegin ==
  /\ pcC = "idle"
  /\ Len(popped) < MaxConcPops
  /\ cons' = [budget |-> BLE_EVT_DELIVER_BUDGET, e |-> ZeroEvent, ok |-> FALSE]
  /\ pcC' = "loop"
  /\ UNCHANGED <<dedupVars, asmVars, queueVars, muxVars, subVars, clockVars,
                 pcP, prod, txVars, busHist, ingHist>>

\* ble_tick: while (budget-- > 0 && q_pop(&e)): the loop ends with the budget
\* used up; else budget--, and q_pop: bool ok = false; portENTER_CRITICAL
PopEnter ==
  /\ pcC = "loop"
  /\ IF cons.budget = 0
     THEN /\ pcC' = "idle"
          /\ cons' = IdleCons
          /\ UNCHANGED g_evt_mux
     ELSE /\ Len(popped) < MaxConcPops
          /\ MuxAdmits(g_evt_mux)
          /\ g_evt_mux' = "tick"
          /\ cons' = [cons EXCEPT !.budget = cons.budget - 1, !.ok = FALSE]
          /\ pcC' = "check"
  /\ UNCHANGED <<dedupVars, asmVars, queueVars, subVars, clockVars, pcP, prod,
                 txVars, busHist, ingHist>>

\* q_pop: if (!q_empty())
PopCheck ==
  /\ pcC = "check"
  /\ pcC' = IF q_empty(TheQueue) THEN "exit" ELSE "loadType"
  /\ UNCHANGED <<dedupVars, asmVars, queueVars, muxVars, subVars, clockVars,
                 pcP, prod, cons, txVars, busHist, ingHist>>

\* q_pop: *out = g_evt_q[g_evt_tail], the tag first
PopLoadType ==
  /\ pcC = "loadType"
  /\ cons' = [cons EXCEPT !.e.type = g_evt_q[g_evt_tail].type,
                          !.e.pub = g_evt_q[g_evt_tail].pub]
  /\ pcC' = "loadData"
  /\ UNCHANGED <<dedupVars, asmVars, queueVars, muxVars, subVars, clockVars,
                 pcP, prod, txVars, busHist, ingHist>>

\* q_pop: *out = g_evt_q[g_evt_tail], then the union
PopLoadData ==
  /\ pcC = "loadData"
  /\ cons' = [cons EXCEPT !.e.data = g_evt_q[g_evt_tail].data]
  /\ pcC' = "tail"
  /\ UNCHANGED <<dedupVars, asmVars, queueVars, muxVars, subVars, clockVars,
                 pcP, prod, txVars, busHist, ingHist>>

\* q_pop: g_evt_tail = Q_NEXT(g_evt_tail); ok = true
PopTail ==
  /\ pcC = "tail"
  /\ g_evt_tail' = Q_NEXT(g_evt_tail)
  /\ cons' = [cons EXCEPT !.ok = TRUE]
  /\ pcC' = "exit"
  /\ UNCHANGED <<dedupVars, asmVars, g_evt_q, g_evt_head, g_evt_dropped,
                 muxVars, subVars, clockVars, pcP, prod, txVars, busHist,
                 ingHist>>

\* q_pop: portEXIT_CRITICAL; return ok
PopExit ==
  /\ pcC = "exit"
  /\ g_evt_mux' = "free"
  /\ IF cons.ok
     THEN pcC' = "deliver" /\ UNCHANGED cons
     ELSE pcC' = "idle" /\ cons' = IdleCons
  /\ UNCHANGED <<dedupVars, asmVars, queueVars, subVars, clockVars, pcP, prod,
                 txVars, busHist, ingHist>>

\* ble_tick: the loop body, every subscriber's callback on the copy e
TickDeliver ==
  /\ pcC = "deliver"
  /\ calls' = calls \o Deliver(cons.e, g_subs, slotSub)
  /\ popped' = Append(popped, [pub |-> cons.e.pub, npub |-> Len(published)])
  /\ pcC' = "loop"
  /\ UNCHANGED <<published, dedupVars, asmVars, queueVars, muxVars, subVars,
                 clockVars, pcP, prod, cons, txVars, ingHist>>

ConcSubscribe == \E cb \in Callbacks :
                   /\ subLog = << >>
                   /\ published = << >>
                   /\ ble_subscribe(cb, 0)

ConcInit == InitAt(U32Zero)

ConcNext ==
  \/ ConcBegin \/ PushEnter \/ PushEvict \/ PushStoreType \/ PushStoreData
  \/ PushHead \/ PushExit \/ ConcReturn
  \/ TickBegin \/ PopEnter \/ PopCheck \/ PopLoadType \/ PopLoadData
  \/ PopTail \/ PopExit \/ TickDeliver
  \/ ConcSubscribe

SpecConc == ConcInit /\ [][ConcNext]_vars

\* ------------------------------------------------------------------------
\* Parcel keys
\* ------------------------------------------------------------------------
\* The numeric index of a parcel key "<id><digits>".
KeyIndex(key) == ToInt(SubstringFrom(key, 2))

\* The header parcels (index 0) and data parcels (index >= 1) of a message box.
HeaderKeys(box) == {k \in DOMAIN box : Len(k) >= 3 /\ KeyIndex(k) = 0}
DataKeys(box)   == {k \in DOMAIN box : Len(k) >= 3 /\ KeyIndex(k) >= 1}

\* ------------------------------------------------------------------------
\* SpecRoundTrip: a sender splits a text into parcels (BluetoothMessage
\* constructor), the receiver ingests them, each at most once
\* ------------------------------------------------------------------------
MaxFeed == 12
MaxAnyOrder == 3

ID_AA == <<65, 65>>
FROM_SND == <<83, 78, 68>>
TO_DST == <<68, 83, 84>>

\* A text of n bytes whose 20-byte chunks all differ: lower-case letters,
\* the letter changing with the chunk and within it.
PatternText(n) ==
  [i \in 1..n |-> 97 + ((((i - 1) \div TEXT_LENGTH_PER_PARCEL) + (i - 1)) % 26)]

\* 221 chunks: the first as in PatternText, the other 220 (4400 bytes of
\* 'h' and 'g') with byte values summing to 26^4 = 456976.
CollidingText ==
  [i \in 1..(221 * TEXT_LENGTH_PER_PARCEL) |->
     IF i <= TEXT_LENGTH_PER_PARCEL THEN 97 + ((i - 1) % 26)
     ELSE IF i <= TEXT_LENGTH_PER_PARCEL + 3776 THEN 104
     ELSE 103]

\* One parcel, three parcels (20 + 20 + 1), ten parcels, 221 parcels.
Texts == <<T_HelloWorld, PatternText(41), PatternText(181), CollidingText>>

\* The sender's message for each text.
Messages == [t \in 1..Len(Texts) |-> ComposeMessage(ID_AA, FROM_SND, TO_DST, Texts[t])]

TxMessage == Messages[tx]
TxBox == TxMessage.messageBox

\* The key of a parcel text: the part before its first colon.
ParcelKey(body) == Substring(body, 0, IndexOf(body, COLON))

\* The parcel keys already received, from the log of callbacks.
FedKeys == {ParcelKey(SubSeq(ingestLog[n].sd, 2, Len(ingestLog[n].sd))) :
              n \in 1..Len(ingestLog)}

\* The parcel numbers that may arrive next of a message of n data parcels
\* when those in got have arrived: the header (number 0) at any time, and
\* of the data parcels any when the message has few, else the next one in
\* ascending or in descending order.
MayArrive(n, got) ==
  {i \in 0..n :
     /\ i \notin got
     /\ \/ i = 0
        \/ n <= MaxAnyOrder
        \/ got \ {0} = 1..(i - 1)
        \/ got \ {0} = (i + 1)..n}

RtInit == InitAt(U32(DEDUP_WINDOW_MS))

Compose == \E t \in 1..Len(Texts) :
  /\ tx = 0
  /\ tx' = t
  /\ UNCHANGED <<dedupVars, asmVars, queueVars, muxVars, subVars, clockVars,
                 procVars, radioVars, busHist, ingHist>>

Feed ==
  /\ tx # 0
  /\ Len(ingestLog) < MaxFeed
  /\ \E box \in {TxBox} : \E got \in {{KeyIndex(k) : k \in FedKeys}} :
       \E i \in MayArrive(Cardinality(DOMAIN box) - 1, got) :
         onResult(Adv(<<MARKER>> \o box[ID_AA \o StringOfInt(i)]))

RtNext == Compose \/ Feed

SpecRoundTrip == RtInit /\ [][RtNext]_vars

\* ------------------------------------------------------------------------
\* History readers
\* ------------------------------------------------------------------------
Last(seq) == seq[Len(seq)]

DoneEntries == {k \in 1..Len(published) : published[k].ev.type = BLE_EVT_MESSAGE_DONE}

\* Content (the bytes after the marker) of a logged advertisement.
ContentOf(sd) == SubSeq(sd, 2, Len(sd))

\* Whether a logged callback fed the assembler, and which slot.
FedParcel(e) == e.accepted /\ is_parcel_like(ContentOf(e.sd))
SlotOf(e) == inflight_index_2(ContentOf(e.sd))

\* The k-th colon-separated field (k = 0, 1, ...) of a parcel text.
RECURSIVE FieldFrom(_, _, _)
FieldFrom(s, start, k) ==
  LET p == IndexOfFrom(s, COLON, start) IN
  IF k = 0 THEN (IF p < 0 THEN SubstringFrom(s, start) ELSE Substring(s, start, p))
  ELSE IF p < 0 THEN EmptyStr
  ELSE FieldFrom(s, p + 1, k - 1)

Field(s, k) == FieldFrom(s, 0, k)

\* The calls made to one subscription, as publication numbers in call order.
RECURSIVE CallsOf(_, _)
CallsOf(sub, k) ==
  IF k > Len(calls) THEN << >>
  ELSE (IF calls[k].sub = sub THEN <<calls[k].ev.pub>> ELSE << >>) \o CallsOf(sub, k + 1)

StrictlyIncreasing(seq) == \A i \in 1..(Len(seq) - 1) : seq[i] < seq[i + 1]

\* ------------------------------------------------------------------------
\* Claims on the event bus (SpecBus)
\* ------------------------------------------------------------------------
\* C4: a subscriber registered after an event was published never has its
\* callback invoked with that event, also when the event was still queued at
\* the time of the subscription.
C4_NoReplay ==
  \A k \in 1..Len(calls) :
    calls[k].ev.pub > subLog[calls[k].sub].before

\* C5: the events one subscription's callback receives are a subsequence of
\* the publication order, each a published event, none delivered twice.
C5_FifoAtMostOnce ==
  /\ \A s \in 1..Len(subLog) : StrictlyIncreasing(CallsOf(s, 1))
  /\ \A k \in 1..Len(calls) :
       /\ calls[k].ev.pub \in 1..Len(published)
       /\ calls[k].ev = published[calls[k].ev.pub].ev

\* Two subscriptions have been called, one of them with several events, after
\* a slot was freed and taken again.
C5_Witness ==
  /\ Len(subLog) >= 2
  /\ \E s, t \in 1..Len(subLog) :
       /\ s # t
       /\ Len(CallsOf(s, 1)) >= 2
       /\ Len(CallsOf(t, 1)) >= 1
       /\ subLog[s].slot = subLog[t].slot

\* ------------------------------------------------------------------------
\* Claims on the queue bound (SpecQueue)
\* ------------------------------------------------------------------------
\* The publication numbers returned by q_pop, in order.
PoppedPubs == [k \in 1..Len(popped) |-> popped[k].pub]

\* C3: with capacity C = BLE_EVT_QUEUE_DEPTH, after C + k publishes and no
\* drain the dropped counter is k, and a drain that starts after them
\* delivers the C most recently published events in publication order.
C3_QueueBound ==
  LET n == Len(published)
      C == BLE_EVT_QUEUE_DEPTH
  IN  /\ (n >= C /\ popped = << >>) => g_evt_dropped = n - C
      /\ (n >= C /\ popped # << >> /\ popped[1].npub = n /\ q_empty(TheQueue)) =>
           PoppedPubs = [k \in 1..C |-> n - C + k]

\* ------------------------------------------------------------------------
\* Claims on the dedup cache (SpecDedup)
\* ------------------------------------------------------------------------
\* Age of logged callback i at the time of logged callback j (uint32).
AgeAt(i, j) == U32Sub(ingestLog[j].now, ingestLog[i].now)

\* Earlier callbacks with the payload of callback j that were published.
EarlierPublished(j) ==
  {i \in 1..(j - 1) : ingestLog[i].sd = ingestLog[j].sd /\ ingestLog[i].accepted}

\* Callbacks strictly between i and j that were published, that is, that
\* wrote an entry into the ring.
InsertedBetween(i, j) ==
  Cardinality({k \in (i + 1)..(j - 1) : ingestLog[k].accepted})

WithinWindow(i, j) == ~U32Gt(AgeAt(i, j), ingestLog[j].window)

\* C2 as stated: a valid payload that was published less than the dedup
\* window ago is not published again, whatever was ingested in between; a
\* valid payload that was not is published.
C2_IdempotenceAsStated ==
  LET j == Len(ingestLog) IN
  (j >= 1 /\ ingestLog[j].valid) =>
    (ingestLog[j].accepted <=>
       ~\E i \in EarlierPublished(j) : WithinWindow(i, j))

\* C2 as amended: the same as long as fewer than SEEN_N = 128 other payloads
\* were published in between; after 128 the payload is published again.
C2_Idempotence ==
  LET j == Len(ingestLog) IN
  (j >= 1 /\ ingestLog[j].valid) =>
    (ingestLog[j].accepted <=>
       ~\E i \in EarlierPublished(j) :
           WithinWindow(i, j) /\ InsertedBetween(i, j) < SEEN_N)

\* The payload has come three times: within the window after other payloads
\* (not published), and after the window (published again).
C2_Witness ==
  /\ Cardinality(Probes) = 3
  /\ \E i, j, k \in Probes :
       /\ i < j /\ j < k
       /\ k = Len(ingestLog)
       /\ ingestLog[i].accepted
       /\ ~ingestLog[j].accepted
       /\ InsertedBetween(i, j) >= 1
       /\ WithinWindow(i, j)
       /\ ingestLog[k].accepted
       /\ ~WithinWindow(i, k)

\* ------------------------------------------------------------------------
\* Claims on publish against drain (SpecConc)
\* ------------------------------------------------------------------------
InPush == pcP \in {"evict", "storeType", "storeData", "head", "exit"}
InPop  == pcC \in {"check", "loadType", "loadData", "tail", "exit"}

\* Events taken out of the queue by q_pop, the one being delivered included.
Taken == Len(popped) + (IF pcC = "deliver" THEN 1 ELSE 0)

\* C10: q_push and q_pop never run at the same time; head and tail stay in
\* [0, depth); outside q_push and q_pop the queue holds, in publication
\* order, whole copies of the published events that were neither taken nor
\* evicted, fewer than depth of them, so that the dropped counter is the
\* number of evictions; every event handed to a subscriber is a whole copy
\* of one published event.
C10_Atomicity ==
  /\ ~(InPush /\ InPop)
  /\ g_evt_head \in QIdx
  /\ g_evt_tail \in QIdx
  /\ (~InPush /\ ~InPop) =>
       LET held == QContents(TheQueue) IN
       /\ Len(held) = Len(published) - Taken - g_evt_dropped
       /\ Len(held) < BLE_EVT_QUEUE_DEPTH
       /\ \A k \in 1..Len(held) :
            held[k] = published[Len(published) - Len(held) + k].ev
  /\ \A k \in 1..Len(calls) :
       /\ calls[k].ev.pub \in 1..Len(published)
       /\ calls[k].ev = published[calls[k].ev.pub].ev

\* The main loop waits at the lock with an event already delivered while
\* the radio context, having evicted the oldest event, stores a new one.
C10_Witness ==
  /\ pcP = "storeData"
  /\ pcC = "loop"
  /\ g_evt_dropped >= 1
  /\ Len(calls) >= 1

\* ------------------------------------------------------------------------
\* Claims on the assembler (Spec)
\* ------------------------------------------------------------------------
\* The slot touched by the most recent callback holds nothing but the parcel
\* of that callback.
OnlyNewParcel(e) ==
  LET body == ContentOf(e.sd)
      key  == Substring(body, 0, IndexOf(body, COLON))
      bm   == SlotAt(g_inflight, SlotOf(e)).bm
  IN  \/ SlotAt(g_inflight, SlotOf(e)) = EmptySlot
      \/ /\ DOMAIN bm.messageBox = {key}
         /\ bm.messageBox[key] = body
         /\ bm.message = EmptyStr

\* The latest earlier callback that touched the same slot, 0 if none.
PrevTouch(n) ==
  LET earlier == {k \in 1..(n - 1) :
                    FedParcel(ingestLog[k]) /\ SlotOf(ingestLog[k]) = SlotOf(ingestLog[n])}
  IN  IF earlier = {} THEN 0 ELSE CHOOSE k \in earlier : \A j \in earlier : j <= k

\* C6: when an assembly was left alone for longer than the TTL, the first
\* parcel of a new session with the same id is stored into an empty slot:
\* nothing of the abandoned assembly is present.  (Stated for an assembly
\* last touched at a non-zero clock value, which the sweeper does not skip.)
C6_SlotReuseAfterTtl ==
  LET n == Len(ingestLog) IN
  (/\ n >= 2
   /\ FedParcel(ingestLog[n])
   /\ PrevTouch(n) # 0
   /\ ingestLog[PrevTouch(n)].now # U32Zero
   /\ U32Gt(U32Sub(ingestLog[n].now, ingestLog[PrevTouch(n)].now), U32(INFLIGHT_TTL_MS)))
  => OnlyNewParcel(ingestLog[n])

\* The header's sender and destination cut to what the event fields hold.
CutFrom(s) == SubSeq(s, 1, Min(Len(s), FROM_CAP - 1))
CutTo(s) == SubSeq(s, 1, Min(Len(s), TO_CAP - 1))

\* What C8 says of one MessageDone entry; with cut, the sender and the
\* destination are compared after cutting them to the event fields.
DoneMatchesSlot(p, cut) ==
  LET d   == p.ev.data
      box == p.snap.messageBox
  IN  /\ HeaderKeys(box) # {}
      /\ DataKeys(box) # {}
      /\ \E h \in HeaderKeys(box) :
           /\ d.checksum = Field(box[h], 3)
           /\ d.from = (IF cut THEN CutFrom(Field(box[h], 1)) ELSE Field(box[h], 1))
           /\ d.to = (IF cut THEN CutTo(Field(box[h], 2)) ELSE Field(box[h], 2))
      /\ d.checksum = calculateChecksum(Reassemble(box))
      /\ d.msg_len = Len(Reassemble(box))
      /\ (d.msg_len < BLE_EVT_MAX_TEXT => d.snippet = Reassemble(box))

LoggedPayloads == [k \in 1..Len(ingestLog) |-> ingestLog[k].sd]

\* The documented scenario: AA0:SND:DST:<checksum>, AA1:Hello, AA2:World.
HelloWorldScenario ==
  LoggedPayloads = <<P_A0, P_A1, P_A2>> =>
    /\ Cardinality(DoneEntries) = 1
    /\ \A k \in DoneEntries :
         /\ published[k].ev.data.from = <<83, 78, 68>>
         /\ published[k].ev.data.to = <<68, 83, 84>>
         /\ published[k].ev.data.snippet = T_HelloWorld
         /\ published[k].ev.data.id = <<65, 65>>

\* C8 as stated: every MessageDone event comes from a slot holding a header
\* and at least one data parcel, carries the header's checksum, which is the
\* checksum of the reassembled text, and the header's sender and destination.
C8_CompletionAsStated ==
  /\ \A k \in DoneEntries : DoneMatchesSlot(published[k], FALSE)
  /\ HelloWorldScenario

\* C8 as amended: the same, with the event's from and to being the header's
\* sender and destination cut to the 7 bytes the event fields hold.
C8_Completion ==
  /\ \A k \in DoneEntries : DoneMatchesSlot(published[k], TRUE)
  /\ HelloWorldScenario

\* A MessageDone of the documented scenario, and one whose header names a
\* sender longer than the event field.
C8_Witness ==
  /\ DoneEntries # {}
  /\ \/ LoggedPayloads = <<P_A0, P_A1, P_A2>>
     \/ \E k \in DoneEntries : \E h \in HeaderKeys(published[k].snap.messageBox) :
          Len(Field(published[k].snap.messageBox[h], 1)) >= FROM_CAP

\* C9: after every ingest callback no slot is completed; the callback that
\* completes a message publishes MessageDone and leaves the slot empty.
C9_ResetOnCompletion ==
  /\ \A i \in DOMAIN g_inflight : ~g_inflight[i].bm.messageCompleted
  /\ (Len(ingestLog) > 0 /\ Last(ingestLog).npub = 2) =>
       /\ SlotAt(g_inflight, SlotOf(Last(ingestLog))) = EmptySlot
       /\ Last(published).ev.type = BLE_EVT_MESSAGE_DONE
  /\ Cardinality(DoneEntries) = Cardinality({k \in 1..Len(ingestLog) : ingestLog[k].npub = 2})

C9_Witness ==
  /\ Len(ingestLog) > 0
  /\ Last(ingestLog).npub = 2
  /\ DoneEntries # {}


\* ------------------------------------------------------------------------
\* Claims on the round trip (SpecRoundTrip)
\* ------------------------------------------------------------------------
HeaderFedFirst ==
  /\ Len(ingestLog) >= 1
  /\ \E h \in HeaderKeys(TxBox) : ingestLog[1].sd = <<MARKER>> \o TxBox[h]

AllFed == tx # 0 /\ Len(ingestLog) = Cardinality(DOMAIN TxBox)

\* C1: header first, then every data parcel in any order, into an empty
\* slot: exactly one MessageDone, whose text is the original text and whose
\* checksum is the checksum of the original text.
C1_RoundTrip ==
  (AllFed /\ HeaderFedFirst) =>
    /\ Cardinality(DoneEntries) = 1
    /\ \A k \in DoneEntries :
         /\ published[k].snap.message = TxMessage.message
         /\ published[k].ev.data.checksum = calculateChecksum(TxMessage.message)

\* The byte values of the text sum to less than 26^4, the range of the
\* checksum.
ShortSum(text) == ByteSum(text, 1, Len(text)) < 26 * 26 * 26 * 26

PartialDelivery ==
  /\ tx # 0
  /\ HeaderKeys(TxBox) \subseteq FedKeys
  /\ Len(ingestLog) < Cardinality(DOMAIN TxBox)

\* C7 as stated: with the header and only a strict subset of the data
\* parcels received, no MessageDone is published.
C7_PartialAsStated == PartialDelivery => DoneEntries = {}

\* C7 as amended: the same for a text whose byte values sum to less than
\* 26^4 = 456976 (every text shorter than 1792 bytes).
C7_Partial == (PartialDelivery /\ ShortSum(TxMessage.message)) => DoneEntries = {}

\* Header and one of three data parcels received.
C7_Witness ==
  /\ PartialDelivery
  /\ ShortSum(TxMessage.message)
  /\ Cardinality(DataKeys(TxBox)) = 3
  /\ Cardinality(FedKeys \cap DataKeys(TxBox)) = 1
  /\ DoneEntries = {}


\* ------------------------------------------------------------------------
\* SpecIso: the ingest callback statement group by statement group (radio
\* context) against the whole consumer-facing surface (main loop context).
\* Nothing but the queue is behind the critical section.
\* ------------------------------------------------------------------------
MaxIsoIngest == 2
MaxIsoPops == 1

IsoAdverts == {Adv(P_HELLO), Adv(P_A0), Adv(P_A1), Adv(P_A2)}

IsoWindows == {U32Zero}

IsoLogEntry(d, now, g, npub) ==
  [sd |-> d.sd, now |-> now, valid |-> g.valid, accepted |-> g.accept,
   npub |-> npub, window |-> g_dedupe_ms]

\* Lines 228-272: validation, dedup, the SingleText publication; then on to
\* the assembler (273-275) or straight to the sweep (313).
IsoGate ==
  \E d \in IsoAdverts :
  \E g \in {IngestGate(d, g_seen, g_seen_head, g_dedupe_ms, millis)} :
  /\ pcP = "idle"
  /\ g_evt_mux = "free"
  /\ Len(ingestLog) < MaxIsoIngest
  /\ g_seen' = g.ring
  /\ g_seen_head' = g.head
  /\ IF ~g.accept
     THEN /\ ingestLog' = Append(ingestLog, IsoLogEntry(d, millis, g, 0))
          /\ UNCHANGED <<queueVars, published, pcP, prod>>
     ELSE \E ev \in {SingleTextEvent(g.payload, d.rssi, d.mac, Len(published) + 1)} :
          \E Q1 \in {q_push(TheQueue, ev)} :
          /\ g_evt_q' = Q1.q
          /\ g_evt_head' = Q1.head
          /\ g_evt_tail' = Q1.tail
          /\ g_evt_dropped' = Q1.dropped
          /\ published' = Append(published, [ev |-> ev, snap |-> NoMessage])
          /\ prod' = [d |-> d, now |-> millis, g |-> g, npub |-> 1,
                      idx |-> inflight_index_2(g.content)]
          /\ pcP' = IF is_parcel_like(g.content) /\ inflight_index_2(g.content) >= 0
                    THEN "add" ELSE "sweep"
          /\ UNCHANGED ingestLog
  /\ UNCHANGED <<g_dedupe_ms, asmVars, muxVars, subVars, clockVars, pcC, cons,
                 txVars, calls, popped>>

\* Lines 273-275: slot.bm.addMessageParcel(body), on the slot as it stands now.
IsoAdd ==
  /\ pcP = "add"
  /\ \E slot \in {SlotAt(g_inflight, prod.idx)} :
       /\ g_inflight' = ArrSet(g_inflight, prod.idx,
                               [slot EXCEPT !.bm = addMessageParcel(slot.bm, CString(prod.g.content))],
                               EmptySlot)
       /\ pcP' = "touch"
       /\ UNCHANGED <<dedupVars, queueVars, muxVars, subVars, clockVars, prod, pcC,
                      cons, txVars, busHist, ingHist>>

\* Line 276: slot.lastTouchMs = now.
IsoTouch ==
  /\ pcP = "touch"
  /\ \E slot \in {SlotAt(g_inflight, prod.idx)} :
       /\ g_inflight' = ArrSet(g_inflight, prod.idx, [slot EXCEPT !.lastTouchMs = prod.now],
                               EmptySlot)
       /\ pcP' = "check"
       /\ UNCHANGED <<dedupVars, queueVars, muxVars, subVars, clockVars, prod, pcC,
                      cons, txVars, busHist, ingHist>>

\* Lines 277-309: completion check, the MessageDone publication, the reset.
IsoCheck ==
  /\ pcP = "check"
  /\ \E slot \in {SlotAt(g_inflight, prod.idx)} :
       /\ g_evt_mux = "free"
       /\ IF slot.bm.messageCompleted
          THEN \E ev2 \in {MessageDoneEvent(prod.g.content, slot.bm, Len(published) + 1)} :
               \E Q2 \in {q_push(TheQueue, ev2)} :
               /\ g_evt_q' = Q2.q
               /\ g_evt_head' = Q2.head
               /\ g_evt_tail' = Q2.tail
               /\ g_evt_dropped' = Q2.dropped
               /\ published' = Append(published, [ev |-> ev2, snap |-> slot.bm])
               /\ g_inflight' = ArrSet(g_inflight, prod.idx, inflight_reset(slot), EmptySlot)
               /\ prod' = [prod EXCEPT !.npub = 2]
          ELSE UNCHANGED <<queueVars, published, asmVars, prod>>
       /\ pcP' = "sweep"
       /\ UNCHANGED <<dedupVars, muxVars, subVars, clockVars, pcC, cons, txVars,
                      calls, popped, ingHist>>

\* Line 313: inflight_sweep(now), and the callback returns.
IsoSweep ==
  /\ pcP = "sweep"
  /\ g_inflight' = inflight_sweep(g_inflight, prod.now)
  /\ ingestLog' = Append(ingestLog, IsoLogEntry(prod.d, prod.now, prod.g, prod.npub))
  /\ pcP' = "idle"
  /\ prod' = IdleProd
  /\ UNCHANGED <<dedupVars, queueVars, muxVars, subVars, clockVars, pcC, cons,
                 txVars, busHist>>

\* ble_events_dropped(): the value returned to the caller.
ble_events_dropped ==
  /\ pcC = "idle"
  /\ cons' = [dropped |-> g_evt_dropped]
  /\ UNCHANGED <<dedupVars, asmVars, queueVars, muxVars, subVars, clockVars,
                 pcP, prod, pcC, txVars, busHist, ingHist>>

IsoTick == Len(popped) < MaxIsoPops /\ ble_tick

IsoSubscribe == \E cb \in Callbacks : subLog = << >> /\ ble_subscribe(cb, 0)

IsoUnsubscribe == \E t \in 1..BLE_MAX_SUBSCRIBERS :
  g_subs[t - 1].used # 0 /\ ble_unsubscribe(t)

IsoSetWindow == \E ms \in IsoWindows : ble_set_dedup_window(ms)

IsoPurge == ble_inflight_purge_now

IsoDropped == ble_events_dropped

IsoInit == InitAt(U32(DEDUP_WINDOW_MS))

IsoConsumer ==
  IsoTick \/ IsoSubscribe \/ IsoUnsubscribe \/ IsoSetWindow \/ IsoPurge \/ IsoDropped

IsoNext ==
  \/ IsoGate \/ IsoAdd \/ IsoTouch \/ IsoCheck \/ IsoSweep
  \/ IsoTick \/ IsoSubscribe \/ IsoUnsubscribe \/ IsoSetWindow \/ IsoPurge
  \/ IsoDropped

SpecIso == IsoInit /\ [][IsoNext]_vars

\* C11: while an ingest callback is running, no operation of the
\* consumer-facing surface (tick, subscribe, unsubscribe, set dedup window,
\* forced purge, dropped count) changes an assembler slot or a dedup entry.
C11_ConsumerIsolation ==
  [][(pcP # "idle" /\ IsoConsumer) => UNCHANGED <<g_inflight, g_seen, g_seen_head>>]_vars


\* ------------------------------------------------------------------------
\* SpecValidator: is_valid_utf8_line applied to every content string over
\* ValBytes of up to MaxValLen bytes, collected byte by byte.
\* ------------------------------------------------------------------------
MaxValLen == 4

\* LF, space, 'A', DEL; continuation bytes 80, 8F, 90, 9F, A0, BF; lead bytes
\* C0, C2, E0, ED, F0, F4, F5.
ValBytes == {10, 32, 65, 127, 128, 143, 144, 159, 160, 191, 192, 194, 224, 237,
             240, 244, 245}

ValContent == IF "content" \in DOMAIN prod THEN prod.content ELSE EmptyStr

ValChecked == "ok" \in DOMAIN prod

\* One more byte of service-data content.
ValByte == \E b \in ValBytes :
  /\ pcP = "idle"
  /\ ~ValChecked
  /\ Len(ValContent) < MaxValLen
  /\ prod' = [content |-> Append(ValContent, b)]
  /\ UNCHANGED <<dedupVars, asmVars, queueVars, muxVars, subVars, clockVars,
                 pcP, pcC, cons, txVars, busHist, ingHist>>

\* Line 241: is_valid_utf8_line(content, clen); nothing but the result changes.
ValCheck ==
  /\ pcP = "idle"
  /\ ~ValChecked
  /\ prod' = [content |-> ValContent, ok |-> is_valid_utf8_line(ValContent)]
  /\ UNCHANGED <<dedupVars, asmVars, queueVars, muxVars, subVars, clockVars,
                 pcP, pcC, cons, txVars, busHist, ingHist>>

ValInit == InitAt(U32Zero)

ValNext == ValByte \/ ValCheck

SpecValidator == ValInit /\ [][ValNext]_vars

\* Well-formed multi-byte text without control bytes, by the byte ranges of
\* each sequence length: 20..7E; C2..DF 80..BF; E0 A0..BF 80..BF;
\* E1..EC/EE..EF 80..BF 80..BF; ED 80..9F 80..BF; F0 90..BF 80..BF 80..BF;
\* F1..F3 80..BF 80..BF 80..BF; F4 80..8F 80..BF 80..BF.
IsCont(b) == b >= 128 /\ b <= 191

SecondOk(lead, b) ==
  IF lead = 224 THEN b >= 160 /\ b <= 191
  ELSE IF lead = 237 THEN b >= 128 /\ b <= 159
  ELSE IF lead = 240 THEN b >= 144 /\ b <= 191
  ELSE IF lead = 244 THEN b >= 128 /\ b <= 143
  ELSE IsCont(b)

SeqLen(lead) ==
  IF lead >= 32 /\ lead <= 126 THEN 1
  ELSE IF lead >= 194 /\ lead <= 223 THEN 2
  ELSE IF lead >= 224 /\ lead <= 239 THEN 3
  ELSE IF lead >= 240 /\ lead <= 244 THEN 4
  ELSE 0

RECURSIVE WellFormedFrom(_, _)
WellFormedFrom(s, i) ==
  IF i > Len(s) THEN TRUE
  ELSE LET k == SeqLen(s[i]) IN
       /\ k # 0
       /\ i + k - 1 <= Len(s)
       /\ k >= 2 => SecondOk(s[i], s[i + 1])
       /\ \A j \in (i + 2)..(i + k - 1) : IsCont(s[j])
       /\ WellFormedFrom(s, i + k)

WellFormedText(s) == WellFormedFrom(s, 1)

\* C13: the validator accepts a content string exactly when it has no byte
\* below 0x20, no 0x7F, and is well-formed multi-byte text (no truncated
\* sequence, no overlong encoding, no surrogate, nothing above U+10FFFF).
C13_ValidatorCorrect ==
  ValChecked => (prod.ok <=> WellFormedText(prod.content))


\* ------------------------------------------------------------------------
\* SpecGate: the ingest path on accepted and on rejected advertisements
\* ------------------------------------------------------------------------
MaxGateIngest == 3
MaxGateAdvance == 1

\* ">AB1:" (parcel-shaped, content of 4 bytes), ">HEL<LF>LO", ">HELLO<DEL>",
\* ">HELLO" E2 82 0A, ">HELLO" E2 82 00 "Z", ">HELLO" E2 82 AC (euro sign)
P_SHORT == <<62, 65, 66, 49, 58>>
P_CTRL  == <<62, 72, 69, 76, 10, 76, 79>>
P_DEL   == <<62, 72, 69, 76, 76, 79, 127>>
P_LF3   == <<62, 72, 69, 76, 76, 79, 226, 130, 10>>
P_NUL3  == <<62, 72, 69, 76, 76, 79, 226, 130, 0, 90>>
P_EURO  == <<62, 72, 69, 76, 76, 79, 226, 130, 172>>

GateAdverts == {Adv(P_HELLO), Adv(P_HI), Adv(P_SHORT), Adv(P_CTRL), Adv(P_DEL),
                Adv(P_LF3), Adv(P_NUL3), Adv(P_EURO), Adv(P_A1)}

GateInit == InitAt(U32Zero)

GateIngest == \E d \in GateAdverts : Len(ingestLog) < MaxGateIngest /\ onResult(d)

GateClock == nAdvance < MaxGateAdvance /\ Advance(DEDUP_WINDOW_MS + 1)

GateNext == GateIngest \/ GateClock

SpecGate == GateInit /\ [][GateNext]_vars

\* The content is shorter than the minimum or holds a control byte.
BadContent(c) ==
  \/ Len(c) < MIN_SINGLE_LEN
  \/ \E i \in 1..Len(c) : c[i] < 32 \/ c[i] = 127

\* The step is a callback on a payload with such content.
RejectingStep ==
  /\ Len(ingestLog') = Len(ingestLog) + 1
  /\ BadContent(ContentOf(Last(ingestLog').sd))

\* C12: an advertisement whose content is shorter than 5 bytes or holds a
\* byte below 0x20 or the byte 0x7F publishes no event and leaves the
\* dropped-event counter, the dedup ring and every assembler slot as they
\* were.
C12_RejectedSilent ==
  [][RejectingStep => /\ published' = published
                      /\ UNCHANGED <<g_evt_q, g_evt_head, g_evt_tail, g_evt_dropped>>
                      /\ UNCHANGED <<g_seen, g_seen_head, g_inflight>>]_vars

\* The events published by the latest callback.
LastPublished ==
  SubSeq(published, Len(published) - Last(ingestLog).npub + 1, Len(published))

\* The latest callback had a marker-prefixed payload whose content passes
\* the validator with at least the minimum length, not published within the
\* dedup window before.
FreshValidText ==
  /\ Len(ingestLog) > 0
  /\ LET j == Len(ingestLog)
         e == ingestLog[j]
     IN  /\ Len(e.sd) >= 1
         /\ e.sd[1] = MARKER
         /\ is_valid_utf8_line(ContentOf(e.sd))
         /\ Len(ContentOf(e.sd)) >= MIN_SINGLE_LEN
         /\ \A i \in EarlierPublished(j) : ~WithinWindow(i, j)

\* C14: such an advertisement publishes exactly one SingleText event, whose
\* text is the whole marker-prefixed payload and whose length field is the
\* length of that text.
C14_AcceptedSingleText ==
  FreshValidText =>
    LET singles == {k \in 1..Len(LastPublished) :
                      LastPublished[k].ev.type = BLE_EVT_SINGLE_TEXT}
    IN  /\ Cardinality(singles) = 1
        /\ \A k \in singles :
             /\ LastPublished[k].ev.data.text = Last(ingestLog).sd
             /\ LastPublished[k].ev.data.text_len = Len(Last(ingestLog).sd)


\* ------------------------------------------------------------------------
\* SpecDrain: more queued events than one drain call delivers, and
\* subscribers in several slots
\* ------------------------------------------------------------------------
MaxDrainIngest == 14
MaxDrainTicks == 2
MaxDrainSubs == 3

DrainInit == InitAt(U32Zero)

DrainIngest ==
  /\ Len(ingestLog) < MaxDrainIngest
  /\ onResult(Adv(FloodText(Len(ingestLog) + 1)))

DrainTick == TicksDone < MaxDrainTicks /\ ble_tick

DrainSubscribe == \E cb \in Callbacks :
  /\ ingestLog = << >>
  /\ Len(subLog) < MaxDrainSubs
  /\ ble_subscribe(cb, Len(subLog))

DrainUnsubscribe == \E t \in 1..BLE_MAX_SUBSCRIBERS :
  /\ ingestLog = << >>
  /\ g_subs[t - 1].used # 0
  /\ ble_unsubscribe(t)

DrainNext == DrainIngest \/ DrainTick \/ DrainSubscribe \/ DrainUnsubscribe

SpecDrain == DrainInit /\ [][DrainNext]_vars

\* The slots a drain call invokes.
InUse == {i \in SubIdx : g_subs[i].used # 0 /\ g_subs[i].cb # 0}

\* C15: a drain call pops min(budget, queued) events, oldest first; for each
\* popped event, before the next one, every in-use slot's callback is invoked
\* in ascending slot order; the events beyond the budget stay queued in the
\* same order; on an empty queue no callback is invoked.
C15_DrainBudgetOrder ==
  [][LET before   == QContents(TheQueue)
         k        == Len(popped') - Len(popped)
         n        == Cardinality(InUse)
         newCalls == SubSeq(calls', Len(calls) + 1, Len(calls'))
     IN  (k > 0 \/ calls' # calls) =>
           /\ k = Min(BLE_EVT_DELIVER_BUDGET, Len(before))
           /\ \A m \in 1..k : popped'[Len(popped) + m].pub = before[m].pub
           /\ QContents(TheQueue') = SubSeq(before, k + 1, Len(before))
           /\ Len(newCalls) = k * n
           /\ \A c \in 1..Len(newCalls) :
                /\ newCalls[c].ev = before[((c - 1) \div n) + 1]
                /\ newCalls[c].slot \in InUse
                /\ Cardinality({i \in InUse : i < newCalls[c].slot}) = (c - 1) % n
                /\ newCalls[c].cb = g_subs[newCalls[c].slot].cb
                /\ newCalls[c].ctx = g_subs[newCalls[c].slot].ctx
    ]_vars

\* One drain call on 14 queued events with slots 0 and 2 in use: 12 popped,
\* 24 callback invocations, 2 events left.
C15_Witness ==
  /\ InUse = {0, 2}
  /\ Len(published) = 14
  /\ Len(popped) = BLE_EVT_DELIVER_BUDGET
  /\ Len(calls) = 2 * BLE_EVT_DELIVER_BUDGET
  /\ QLen(TheQueue) = 2


\* ------------------------------------------------------------------------
\* SpecSubs: the subscriber table under every subscribe and unsubscribe
\* call, valid or not, with events published and drained in between
\* ------------------------------------------------------------------------
MaxSubsLog == 4

\* No callback (nullptr) and a callback.
SubsCallbacks == {0, 1}

\* Tokens from below the valid range to above it.
SubsTokens == (0 - 1)..(BLE_MAX_SUBSCRIBERS + 2)

SubsInit == InitAt(U32Zero)

\* The context passed along is derived from the callback.  Successful
\* calls are bounded, refused ones are not.
SubsSubscribe == \E cb \in SubsCallbacks :
  /\ Len(subLog) < MaxSubsLog \/ SubscribeToken(g_subs, cb) = 0
  /\ ble_subscribe(cb, cb + 8)

SubsUnsubscribe == \E t \in SubsTokens : ble_unsubscribe(t)

\* One advertisement, at any point between the calls.
SubsIngest == ingestLog = << >> /\ onResult(Adv(P_HELLO))

SubsTick == ble_tick

SubsNext == SubsSubscribe \/ SubsUnsubscribe \/ SubsIngest \/ SubsTick

SpecSubs == SubsInit /\ [][SubsNext]_vars

\* The step is a ble_subscribe call returning (cons' has its arguments and
\* the token), or a ble_unsubscribe call returning (cons' has its argument).
SubscribeReturns ==
  /\ "token" \in DOMAIN cons'
  /\ cons' # cons \/ subLog' # subLog

UnsubscribeReturns ==
  /\ "unsub" \in DOMAIN cons'
  /\ cons' # cons \/ g_subs' # g_subs

\* C16: subscribe returns 0 and leaves the table as it was when the callback
\* is absent or all 4 slots are in use; otherwise it returns a token t in
\* 1..4 whose slot t-1 was free and is afterwards in use with the given
\* callback and context, every other slot (and so every other active
\* token) staying as it was.
C16_Subscribe ==
  [][SubscribeReturns =>
       LET t == cons'.token IN
       IF cons'.cb = 0 \/ \A i \in SubIdx : g_subs[i].used # 0
       THEN t = 0 /\ g_subs' = g_subs
       ELSE /\ t \in 1..BLE_MAX_SUBSCRIBERS
            /\ g_subs[t - 1].used = 0
            /\ g_subs'[t - 1] = [cb |-> cons'.cb, ctx |-> cons'.ctx, used |-> 1]
            /\ \A i \in SubIdx \ {t - 1} : g_subs'[i] = g_subs[i]
    ]_vars

\* A subscribe refused on a full table.
C16_Witness ==
  /\ \A i \in SubIdx : g_subs[i].used # 0
  /\ "token" \in DOMAIN cons
  /\ cons.cb # 0
  /\ cons.token = 0

\* C17: unsubscribe(token) with token in 1..4 frees slot token-1 and changes
\* no other slot and no queued event; with any other token it changes
\* nothing; from then on a drain call invokes no callback for the freed
\* slot, while it invokes every slot still in use for every event it pops.
C17_Unsubscribe ==
  [][/\ UnsubscribeReturns =>
          LET t == cons'.unsub IN
          /\ t \in 1..BLE_MAX_SUBSCRIBERS => g_subs'[t - 1] = NoSub
          /\ \A i \in SubIdx : i # t - 1 => g_subs'[i] = g_subs[i]
          /\ UNCHANGED <<g_evt_q, g_evt_head, g_evt_tail, g_evt_dropped>>
     /\ calls' # calls =>
          LET newCalls == SubSeq(calls', Len(calls) + 1, Len(calls'))
              k        == Len(popped') - Len(popped)
          IN  /\ \A c \in 1..Len(newCalls) : g_subs[newCalls[c].slot] # NoSub
              /\ \A i \in InUse : \A m \in 1..k :
                   \E c \in 1..Len(newCalls) :
                     /\ newCalls[c].slot = i
                     /\ newCalls[c].ev.pub = popped'[Len(popped) + m].pub
    ]_vars

\* Slot 1 was freed with an event queued, and the drain that followed called
\* slot 0 and slot 2 but not slot 1.
C17_Witness ==
  /\ "unsub" \in DOMAIN cons
  /\ cons.unsub = 2
  /\ g_subs[1] = NoSub
  /\ InUse = {0, 2}
  /\ Len(calls) = 2
  /\ calls[1].slot = 0
  /\ calls[2].slot = 2
  /\ \A k \in 1..Len(subLog) : subLog[k].before = 0


\* ------------------------------------------------------------------------
\* Listening and the burst transmitter
\* ------------------------------------------------------------------------
BURST_MS == 100

\* ble_start_listening(wantsDuplicates): the scan object is created on the
\* first call and the scan started unless it is running.  wantsDuplicates
\* only configures the callback registration of the first call.
ble_start_listening ==
  /\ pcS = "idle"
  /\ g_scan' = TRUE
  /\ g_scanActive' = TRUE
  /\ UNCHANGED <<dedupVars, asmVars, queueVars, muxVars, subVars, clockVars,
                 procVars, tx, adv, pcS, snd, radioLog, busHist, ingHist,
                 msgVars, hookVars>>

\* g_scanActive after a ble_stop_listening() that does nothing.
ScanStopped_keep(scan, active) == active

\* g_scanActive after ble_stop_listening().
ScanStopped(scan, active) == IF scan /\ active THEN FALSE ELSE active

ble_stop_listening ==
  /\ pcS = "idle"
  /\ g_scanActive' = ScanStopped(g_scan, g_scanActive)
  /\ UNCHANGED <<dedupVars, asmVars, queueVars, muxVars, subVars, clockVars,
                 procVars, tx, g_scan, adv, pcS, snd, radioLog, busHist, ingHist,
                 msgVars, hookVars>>

\* ble_is_listening()
ble_is_listening == g_scanActive

\* Lines 351-353 of adv_send_text_burst: the service data put on air for the
\* String text.
WirePayload(text) ==
  LET p0 == CString(text)
      p1 == IF Len(p0) = 0 \/ p0[1] # MARKER THEN <<MARKER>> \o p0 ELSE p0
  IN  IF Len(p1) > ADV_TEXT_MAX THEN SubSeq(p1, 1, ADV_TEXT_MAX) ELSE p1

\* Lines 376-377 of ble_send_text: the String handed to the burst.
SendText(bytes) == <<MARKER>> \o bytes

\* A return value that is the number of bytes put on air.
SendResult_wire(bytes) == Len(WirePayload(SendText(bytes)))

\* Line 382: return (int)len.
SendResult(bytes) == Len(bytes)

\* ble_send_text(data, len, pauseDuringSend), lines 371-377: the early
\* return, or the pause of the scan and the text.  a = [have, bytes, pause],
\* bytes being data[0..len-1] when data is present.
SendEnter(a) ==
  /\ pcS = "idle"
  /\ IF ~a.have \/ Len(a.bytes) = 0
     THEN /\ snd' = [have |-> a.have, bytes |-> a.bytes, pause |-> a.pause, ret |-> 0]
          /\ radioLog' = << >>
          /\ UNCHANGED <<g_scan, g_scanActive, adv, pcS>>
     ELSE \E resume \in {a.pause /\ ble_is_listening} :
          \E active \in {IF resume THEN ScanStopped(g_scan, g_scanActive)
                         ELSE g_scanActive} :
          /\ g_scanActive' = active
          /\ radioLog' = IF active # g_scanActive THEN <<"scan.stop">> ELSE << >>
          /\ snd' = [have |-> a.have, bytes |-> a.bytes, pause |-> a.pause,
                     resume |-> resume, was |-> g_scanActive,
                     txt |-> SendText(a.bytes)]
          /\ pcS' = "burst"
          /\ UNCHANGED <<g_scan, adv>>
  /\ UNCHANGED <<dedupVars, asmVars, queueVars, muxVars, subVars, clockVars,
                 procVars, tx, busHist, ingHist,
                 msgVars, hookVars>>

\* adv_send_text_burst, lines 349-363: the payload, adv->stop(), the
\* advertisement data, adv->start().
BurstStart ==
  /\ pcS = "burst"
  /\ adv' = [on |-> TRUE, data |-> WirePayload(snd.txt)]
  /\ radioLog' = radioLog \o <<"adv.stop", "adv.start">>
  /\ pcS' = "hold"
  /\ UNCHANGED <<dedupVars, asmVars, queueVars, muxVars, subVars, clockVars,
                 procVars, tx, g_scan, g_scanActive, snd, busHist, ingHist,
                 msgVars, hookVars>>

\* Line 365: delay(duration_ms).
BurstHold ==
  /\ pcS = "hold"
  /\ millis' = U32Add(millis, U32(BURST_MS))
  /\ nAdvance' = nAdvance + 1
  /\ radioLog' = Append(radioLog, "delay")
  /\ pcS' = "stop"
  /\ UNCHANGED <<dedupVars, asmVars, queueVars, muxVars, subVars, procVars, tx,
                 g_scan, g_scanActive, adv, snd, busHist, ingHist,
                 msgVars, hookVars>>

\* Line 367: adv->stop().
BurstStop ==
  /\ pcS = "stop"
  /\ adv' = [adv EXCEPT !.on = FALSE]
  /\ radioLog' = Append(radioLog, "adv.stop")
  /\ pcS' = "resume"
  /\ UNCHANGED <<dedupVars, asmVars, queueVars, muxVars, subVars, clockVars,
                 procVars, tx, g_scan, g_scanActive, snd, busHist, ingHist,
                 msgVars, hookVars>>

\* Lines 381-382: if (resume) ble_start_listening(true); return (int)len.
SendReturn ==
  /\ pcS = "resume"
  /\ IF snd.resume
     THEN /\ g_scan' = TRUE
          /\ g_scanActive' = TRUE
          /\ radioLog' = IF ~g_scanActive THEN Append(radioLog, "scan.start")
                         ELSE radioLog
     ELSE UNCHANGED <<g_scan, g_scanActive, radioLog>>
  /\ snd' = [have |-> snd.have, bytes |-> snd.bytes, pause |-> snd.pause,
             resume |-> snd.resume, was |-> snd.was, txt |-> snd.txt,
             ret |-> SendResult(snd.bytes)]
  /\ pcS' = "idle"
  /\ UNCHANGED <<dedupVars, asmVars, queueVars, muxVars, subVars, clockVars,
                 procVars, tx, adv, busHist, ingHist,
                 msgVars, hookVars>>

\* ------------------------------------------------------------------------
\* SpecSend: ble_send_text step by step, the listening calls of the main
\* loop between sends, and advertisements received whenever the scan runs
\* ------------------------------------------------------------------------
MaxSends == 2
MaxSendIngest == 2

\* ">HELLO_WORLD" (the documented call), "HELLO", 30 letters, and '>' with
\* 29 letters.
T_MARKED == <<62, 72, 69, 76, 76, 79, 95, 87, 79, 82, 76, 68>>
T_PLAIN  == <<72, 69, 76, 76, 79>>
T_LONG   == [i \in 1..30 |-> 65 + ((i - 1) % 26)]
T_MLONG  == <<62>> \o [i \in 1..29 |-> 65 + ((i - 1) % 26)]

SendTexts == {EmptyStr, T_MARKED, T_PLAIN, T_LONG, T_MLONG}

\* data absent (with a length of 5), or present with each text.
SendArgs ==
  {[have |-> FALSE, bytes |-> T_PLAIN, pause |-> p] : p \in BOOLEAN}
  \cup {[have |-> TRUE, bytes |-> t, pause |-> p] : t \in SendTexts, p \in BOOLEAN}

SendInit == InitAt(U32Zero)

SendCall == \E a \in SendArgs : nAdvance < MaxSends /\ SendEnter(a)

SendStartListening == nAdvance < MaxSends /\ ble_start_listening

SendStopListening == nAdvance < MaxSends /\ ble_stop_listening

\* The radio stack delivers advertisements only while the scan runs.
SendIngest == \E d \in {Adv(P_HELLO), Adv(P_A1)} :
  /\ g_scanActive
  /\ Len(ingestLog) < MaxSendIngest
  /\ onResult(d)

SendNext ==
  \/ SendCall \/ BurstStart \/ BurstHold \/ BurstStop \/ SendReturn
  \/ SendStartListening \/ SendStopListening \/ SendIngest

SpecSend == SendInit /\ [][SendNext]_vars

\* The input with the marker prefixed only if it does not begin with it,
\* cut to 24 bytes.
Framed(bytes) ==
  LET p == IF Len(bytes) > 0 /\ bytes[1] = MARKER THEN bytes ELSE <<MARKER>> \o bytes
  IN  SubSeq(p, 1, Min(Len(p), ADV_TEXT_MAX))

\* C18: the service data on air during a burst is the input with the marker
\* prefixed only if absent, truncated to 24 bytes; an input that begins with
\* the marker goes on air with exactly one leading marker.
C18_TransmitFraming == adv.on => adv.data = Framed(snd.bytes)

\* The step on which a ble_send_text call returns.
SendReturns == "ret" \in DOMAIN snd' /\ snd' # snd

\* C19: with absent data or length 0 the call returns 0, starts no
\* advertising and leaves the listening state alone; otherwise it returns
\* the input length, whatever was prefixed or cut on the wire.
C19_SendResult ==
  [][SendReturns =>
       IF ~snd'.have \/ Len(snd'.bytes) = 0
       THEN /\ snd'.ret = 0
            /\ adv' = adv
            /\ radioLog' = << >>
            /\ UNCHANGED <<g_scan, g_scanActive>>
       ELSE snd'.ret = Len(snd'.bytes)
    ]_vars

\* A 30-byte input was cut to 24 bytes on air and 30 was returned; and an
\* empty input returned 0.
C19_Witness ==
  /\ pcS = "idle"
  /\ "ret" \in DOMAIN snd
  /\ snd.bytes = T_LONG
  /\ snd.ret = 30
  /\ Len(adv.data) = ADV_TEXT_MAX

\* The scan operations in a log.
ScanOps(log) == SelectSeq(log, LAMBDA op : op \in {"scan.stop", "scan.start"})

\* C20: with pauseDuringSend set while listening, the operations of the
\* call are stop-listening, (a stop of the idle advertiser,) start-advertising,
\* hold, stop-advertising, resume-listening in this order and nothing else,
\* and listening is never active while the
\* burst is on air; with pauseDuringSend clear or listening inactive, the
\* call neither stops nor starts listening; in every case, at the return
\* advertising is stopped and ble_is_listening() is what it was at the call.
C20_BurstSequencing ==
  [][/\ (pcS' # "idle" /\ snd'.resume) => ~(adv'.on /\ g_scanActive')
     /\ (pcS = "resume" /\ pcS' = "idle") =>
          /\ IF snd.pause /\ snd.was
             THEN radioLog' = <<"scan.stop", "adv.stop", "adv.start", "delay",
                                "adv.stop", "scan.start">>
             ELSE ScanOps(radioLog') = << >>
          /\ ~adv'.on
          /\ g_scanActive' = snd.was
    ]_vars

\* A paused send has returned: listening is active again.
C20_Witness ==
  /\ pcS = "idle"
  /\ "ret" \in DOMAIN snd
  /\ snd.have
  /\ Len(snd.bytes) > 0
  /\ snd.pause
  /\ snd.was
  /\ g_scanActive
  /\ Len(radioLog) = 6

\* ------------------------------------------------------------------------
\* SpecSweep: assemblies in three slots, the clock stepping around the TTL
\* ------------------------------------------------------------------------
MaxSweepIngest == 3
MaxSweepAdvance == 3

\* ">BB1:World", ">CC1:Again"
P_BB1 == <<62, 66, 66, 49, 58, 87, 111, 114, 108, 100>>
P_CC1 == <<62, 67, 67, 49, 58, 65, 103, 97, 105, 110>>

SweepAdverts == {Adv(P_A1), Adv(P_BB1), Adv(P_CC1)}

\* Clock steps that put an age one short of the TTL, at it, and past it.
SweepDeltas == {INFLIGHT_TTL_MS - 1, 1}

SweepInit == \E c \in ClockStarts : InitAt(c)

SweepIngest == \E d \in SweepAdverts : Len(ingestLog) < MaxSweepIngest /\ onResult(d)

SweepClock == \E d \in SweepDeltas : nAdvance < MaxSweepAdvance /\ Advance(d)

SweepPurge == ble_inflight_purge_now

SweepNext == SweepIngest \/ SweepClock \/ SweepPurge

SpecSweep == SweepInit /\ [][SweepNext]_vars

\* What the contract of sweep(now) makes of one slot.
SweepContract(slot, now) ==
  IF /\ slot # EmptySlot
     /\ ~slot.bm.messageCompleted
     /\ U32Gt(U32Sub(now, slot.lastTouchMs), U32(INFLIGHT_TTL_MS))
  THEN EmptySlot
  ELSE slot

TouchedSlots == DOMAIN g_inflight \cup DOMAIN g_inflight'

\* C21: the sweep at the end of an accepted callback, run with the callback's
\* clock value, resets exactly the occupied, not completed slots older than
\* the TTL and leaves every other slot as it was (all slots but the one the
\* callback itself fed are compared); a forced purge, which sweeps with
\* now + TTL + 1, does the same to every slot.
C21_SweepExact ==
  [][/\ (/\ Len(ingestLog') = Len(ingestLog) + 1
         /\ Last(ingestLog').accepted)
        => \A i \in TouchedSlots :
             (FedParcel(Last(ingestLog')) /\ i = SlotOf(Last(ingestLog')))
             \/ SlotAt(g_inflight', i) = SweepContract(SlotAt(g_inflight, i), millis)
     /\ (ingestLog' = ingestLog /\ g_inflight' # g_inflight)
        => \A i \in TouchedSlots :
             SlotAt(g_inflight', i) =
               SweepContract(SlotAt(g_inflight, i),
                             U32Add(U32Add(millis, U32(INFLIGHT_TTL_MS)), U32(1)))
    ]_vars

\* ------------------------------------------------------------------------
\* SpecMalformed: well-formed parcels of session AA mixed with payloads that
\* are valid advertisements but not well-formed parcels
\* ------------------------------------------------------------------------
MaxMalIngest == 4
MaxMalAdvance == 1

\* ">aa1:Hello" (id letters outside A-Z), ">AA1Hello" (no colon),
\* ">AAx:Hello" (index not decimal), ">AA0:SNDDST" (header without the
\* separators of from:to:checksum)
P_LOWER   == <<62, 97, 97, 49, 58, 72, 101, 108, 108, 111>>
P_NOCOLON == <<62, 65, 65, 49, 72, 101, 108, 108, 111>>
P_NODIGIT == <<62, 65, 65, 120, 58, 72, 101, 108, 108, 111>>
P_BADHDR  == <<62, 65, 65, 48, 58, 83, 78, 68, 68, 83, 84>>

MalAdverts == {Adv(P_A0), Adv(P_A1), Adv(P_A2),
               Adv(P_LOWER), Adv(P_NOCOLON), Adv(P_NODIGIT), Adv(P_BADHDR)}

MalInit == InitAt(U32(DEDUP_WINDOW_MS))

MalIngest == \E d \in MalAdverts : Len(ingestLog) < MaxMalIngest /\ onResult(d)

MalClock == nAdvance < MaxMalAdvance /\ Advance(1)

MalNext == MalIngest \/ MalClock

SpecMalformed == MalInit /\ [][MalNext]_vars

\* The parcel wire shape <2 capitals><decimal index>:<payload>, an index-0
\* parcel carrying <from>:<to>:<checksum>.
WellFormedParcel(c) ==
  LET colon == IndexOf(c, COLON)
      p2    == IndexOfFrom(c, COLON, colon + 1)
      p3    == IndexOfFrom(c, COLON, p2 + 1)
  IN  /\ colon >= 3
      /\ IsUpper(c[1]) /\ IsUpper(c[2])
      /\ \A i \in 3..colon : IsDigit(c[i])
      /\ (\A i \in 3..colon : c[i] = CH_0) => (p2 > colon /\ p3 > p2)

\* C22: an accepted callback whose content is not a well-formed parcel
\* leaves every inflight slot (parcel map, header fields, completed flag,
\* lastTouch) as it was; and after an accepted callback with a well-formed
\* parcel the slot, unless the parcel completed the message and the slot was
\* reset, holds a well-formed parcel under that parcel's key.
C22_MalformedIgnored ==
  [][(/\ Len(ingestLog') = Len(ingestLog) + 1
      /\ Last(ingestLog').accepted)
     => LET c   == ContentOf(Last(ingestLog').sd)
            key == Substring(c, 0, IndexOf(c, COLON))
            bm  == SlotAt(g_inflight', inflight_index_2(c)).bm
        IN  IF ~WellFormedParcel(c)
            THEN g_inflight' = g_inflight
            ELSE \/ SlotAt(g_inflight', inflight_index_2(c)) = EmptySlot
                 \/ /\ key \in DOMAIN bm.messageBox
                    /\ WellFormedParcel(bm.messageBox[key])
    ]_vars

\* ------------------------------------------------------------------------
\* SpecCap: a stream of distinct data parcels of session AA, no header among
\* them, the clock stepping once somewhere in the stream
\* ------------------------------------------------------------------------
MaxCapIngest == 130

\* ">AA<n>:Hello"
CapParcel(n) == <<MARKER, CH_A, CH_A>> \o StringOfInt(n) \o <<COLON, 72, 101, 108, 108, 111>>

CapInit == InitAt(U32(DEDUP_WINDOW_MS))

\* The n-th advertisement carries data parcel n.
CapIngest ==
  /\ Len(ingestLog) < MaxCapIngest
  /\ onResult(Adv(CapParcel(Len(ingestLog) + 1)))

CapClock == nAdvance < 1 /\ Advance(1)

CapNext == CapIngest \/ CapClock

SpecCap == CapInit /\ [][CapNext]_vars

ParcelCount(slot) == Cardinality(DOMAIN slot.bm.messageBox)

\* C23: the dedup ring has at most 128 entries and its cursor stays inside
\* it, the event queue holds at most its capacity, and the parcel map of
\* every inflight slot stays below a constant.  The source fixes no constant
\* for the parcel map, so the bound is stated as the number of advertisements
\* a behaviour ingests: whatever that number is, the map is claimed to stay
\* below it.
C23_FixedCapacity ==
  /\ DOMAIN g_seen \subseteq SeenIdx
  /\ g_seen_head \in SeenIdx
  /\ QLen(TheQueue) <= BLE_EVT_QUEUE_DEPTH
  /\ \A i \in DOMAIN g_inflight : ParcelCount(g_inflight[i]) < MaxCapIngest

\* ------------------------------------------------------------------------
\* Message log (messages.cpp): segmented append-only files, dedupe by
\* checksum inside the current segment
\* ------------------------------------------------------------------------
MSG_SEGMENT_BYTES == 1024 * 1024
MSG_CHECKSUM_HEX_LEN == 8
MSG_TIMESTAMP_LEN == 19
MSG_TYPE_LEN == 3
MSG_MAX_CONTENT_BYTES == 10000
MSG_FLUSH_EVERY_N == 50
PIPE == 124

\* A content string is kept as a run of one byte, [fill, len]: msg_write
\* looks at its length only.  A record of a segment file is its bytes up to
\* and including the fourth '|' (head) and the content.
Run(c, n) == [fill |-> c, len |-> n]

LineLength(line) == Len(line.head) + line.content.len

\* The self-consistent size prefix of msg_write (lines 309-333): the total
\* record size, its own digits included.
RECURSIVE LineSize(_, _)
LineSize(bodyLen, sizeDigits) ==
  LET sz      == sizeDigits + 1 + bodyLen
      sDigits == StringOfInt(sz)
  IN  IF Len(sDigits) = sizeDigits THEN sz ELSE LineSize(bodyLen, Len(sDigits))

\* The record msg_write prints (lines 308-315).
BuildLine(checksum, timestamp, type3, content) ==
  LET bodyLen == Len(checksum) + 1 + Len(timestamp) + 1 + Len(type3) + 1 + content.len
      sDigits == StringOfInt(LineSize(bodyLen, 1))
  IN  [head    |-> sDigits \o <<PIPE>> \o checksum \o <<PIPE>> \o timestamp
                   \o <<PIPE>> \o type3 \o <<PIPE>>,
       content |-> content]

\* readNextRecordBySize: the records of a file that the size prefixes give
\* back, up to the first record whose prefix is not its size.
SizePrefixOk(line) ==
  LET p       == IndexOf(line.head, PIPE)
      sizeStr == Substring(line.head, 0, p)
  IN  /\ p > 0
      /\ p <= 10
      /\ \A k \in 1..p : IsDigit(sizeStr[k])
      /\ ToInt(sizeStr) = LineLength(line)

RecordsOf(file) ==
  LET bad == {i \in 1..Len(file) : ~SizePrefixOk(file[i])}
  IN  IF bad = {} THEN file
      ELSE SubSeq(file, 1, (CHOOSE i \in bad : \A j \in bad : i <= j) - 1)

\* File::size(): the bytes of records lo..hi of a file, and of all of it.
RECURSIVE BytesOf(_, _, _)
BytesOf(file, lo, hi) ==
  IF lo > hi THEN 0
  ELSE IF lo = hi THEN LineLength(file[lo])
  ELSE LET mid == (lo + hi) \div 2
       IN  BytesOf(file, lo, mid) + BytesOf(file, mid + 1, hi)

FileSize(file) == BytesOf(file, 1, Len(file))

SegPut(segs, k, v) == [x \in DOMAIN segs \cup {k} |-> IF x = k THEN v ELSE segs[x]]

\* readLastSeqFromFile
readLastSeqFromFile(seqFile) ==
  IF ~seqFile.exists \/ Len(seqFile.text) = 0 THEN 0 ELSE ToInt(seqFile.text)

\* writeLastSeqToFile
writeLastSeqToFile(v) == [exists |-> TRUE, text |-> StringOfInt(v)]

\* The message log as one record (RAM and directory).
MsgState ==
  [fs |-> g_fs, curSeq |-> g_curSeq, curFile |-> g_curFile, curBytes |-> g_curBytes,
   sinceFlush |-> g_sinceFlush, seen |-> g_seenChecksums,
   segments |-> fsSegments, seqFile |-> fsSeqFile, opened |-> msgOpened]

\* The number openNewSegment gives the new segment (line 173).
NextSeq(curSeq) == curSeq + 1

\* openNewSegment
openNewSegment(st) ==
  LET seq == NextSeq(st.curSeq)
  IN  [st EXCEPT !.seen = {},
                 !.curSeq = seq,
                 !.seqFile = writeLastSeqToFile(seq),
                 !.segments = SegPut(st.segments, seq, << >>),
                 !.curFile = [open |-> TRUE, seq |-> seq],
                 !.curBytes = 0,
                 !.sinceFlush = 0,
                 !.opened = Append(st.opened, [seq |-> seq, prev |-> st.curSeq, by |-> ""])]

\* The checksum field the tail scan reads from a record (lines 191-193).
ScannedChecksum(line) ==
  LET p1 == IndexOf(line.head, PIPE)
      p2 == IndexOfFrom(line.head, PIPE, p1 + 1)
  IN  IF p1 < 0 \/ p2 < 0 THEN EmptyStr ELSE Substring(line.head, p1 + 1, p2)

\* rebuildDedupeForTail
rebuildDedupeForTail(st) ==
  IF st.curSeq = 0 THEN [st EXCEPT !.seen = {}]
  ELSE LET recs == RecordsOf(st.segments[st.curSeq])
       IN  [st EXCEPT !.seen =
              {CString(ScannedChecksum(recs[i])) :
                 i \in {k \in 1..Len(recs) :
                          Len(ScannedChecksum(recs[k])) = MSG_CHECKSUM_HEX_LEN}}]

MaxOf(S) == IF S = {} THEN 0 ELSE CHOOSE m \in S : \A x \in S : x <= m

\* openOrCreateTail
openOrCreateTail(st) ==
  LET maxSeqFiles == MaxOf({q \in DOMAIN st.segments : q > 0})
      seqFileVal  == readLastSeqFromFile(st.seqFile)
      curSeq      == IF maxSeqFiles > seqFileVal THEN maxSeqFiles ELSE seqFileVal
      segs        == IF curSeq > 0 /\ curSeq \notin DOMAIN st.segments
                     THEN SegPut(st.segments, curSeq, << >>)
                     ELSE st.segments
      st1         == IF curSeq > 0
                     THEN [st EXCEPT !.curSeq = curSeq, !.segments = segs,
                                     !.curFile = [open |-> TRUE, seq |-> curSeq],
                                     !.curBytes = FileSize(segs[curSeq])]
                     ELSE [st EXCEPT !.curSeq = curSeq]
      st2         == IF ~st1.curFile.open \/ st1.curBytes >= MSG_SEGMENT_BYTES
                     THEN openNewSegment(st1)
                     ELSE st1
  IN  rebuildDedupeForTail([st2 EXCEPT !.sinceFlush = 0])

\* A dedupe that never finds the checksum.
IsDuplicate_never(seen, checksum) == FALSE

\* The per-segment dedupe test of msg_write (line 303).
IsDuplicate(seen, checksum) == CString(checksum) \in seen

\* rotateIfNeeded
rotateIfNeeded(st, nextLineBytes) ==
  IF st.curBytes + nextLineBytes <= MSG_SEGMENT_BYTES THEN st ELSE openNewSegment(st)

\* msg_write: [ret, st]
msg_write(st, checksum, timestamp, type3, content) ==
  IF ~st.fs \/ ~st.curFile.open THEN [ret |-> FALSE, st |-> st]
  ELSE IF \/ Len(checksum) # MSG_CHECKSUM_HEX_LEN
          \/ Len(timestamp) # MSG_TIMESTAMP_LEN
          \/ Len(type3) # MSG_TYPE_LEN
          \/ content.len > MSG_MAX_CONTENT_BYTES
  THEN [ret |-> FALSE, st |-> st]
  ELSE IF IsDuplicate(st.seen, checksum) THEN [ret |-> FALSE, st |-> st]
  ELSE
    LET line    == BuildLine(checksum, timestamp, type3, content)
        st1     == rotateIfNeeded(st, LineLength(line))
        written == LineLength(line)
        flushed == st1.sinceFlush + 1 >= MSG_FLUSH_EVERY_N
    IN  [ret |-> TRUE,
         st  |-> [st1 EXCEPT
                    !.segments = SegPut(st1.segments, st1.curFile.seq,
                                        Append(st1.segments[st1.curFile.seq], line)),
                    !.curBytes = st1.curBytes + written,
                    !.sinceFlush = IF flushed THEN 0 ELSE st1.sinceFlush + 1,
                    !.seen = st1.seen \cup {CString(checksum)}]]

\* The sequence number msg_delete_all(false) continues from (lines 428-430).
KeptSequence_zero(seqFile) == 0

KeptSequence(seqFile) == readLastSeqFromFile(seqFile)

\* msg_delete_all(resetSequence): [ret, st]
msg_delete_all(st, resetSequence) ==
  IF ~st.fs THEN [ret |-> FALSE, st |-> st]
  ELSE
    LET st1 == [st EXCEPT !.curFile = ClosedFile, !.seen = {}, !.curBytes = 0,
                          !.segments = << >>]
        st2 == IF resetSequence
               THEN [st1 EXCEPT !.seqFile = NoSeqFile, !.curSeq = 0]
               ELSE [st1 EXCEPT !.curSeq = KeptSequence(st1.seqFile)]
    IN  [ret |-> TRUE, st |-> openNewSegment(st2)]

\* The RAM of the message log after a restart of the device; the directory
\* stays.
Rebooted(st) ==
  [st EXCEPT !.fs = FALSE, !.curSeq = 0, !.curFile = ClosedFile, !.curBytes = 0,
             !.sinceFlush = 0, !.seen = {}]

bleVars == <<dedupVars, asmVars, queueVars, muxVars, subVars, clockVars, procVars,
             tx, g_scan, g_scanActive, adv, pcS, snd, radioLog, hookVars,
             busHist, ingHist>>

\* The history of opened segments, the entries of the running call marked
\* with its name.
OpenedBy(opened, op) ==
  [i \in 1..Len(opened) |->
     IF opened[i].by = "" THEN [opened[i] EXCEPT !.by = op] ELSE opened[i]]

\* The message-log variables take the values of st, and call is recorded.
MsgStep(st, call) ==
  /\ g_fs' = st.fs
  /\ g_curSeq' = st.curSeq
  /\ g_curFile' = st.curFile
  /\ g_curBytes' = st.curBytes
  /\ g_sinceFlush' = st.sinceFlush
  /\ g_seenChecksums' = st.seen
  /\ fsSegments' = st.segments
  /\ fsSeqFile' = st.seqFile
  /\ msgOpened' = OpenedBy(st.opened, call.op)
  /\ msgCall' = call
  /\ UNCHANGED bleVars

\* msg_init(fs, directory)
MsgInitCall ==
  \E st \in {openOrCreateTail([MsgState EXCEPT !.fs = TRUE])} :
     MsgStep(st, [n |-> msgCall.n + 1, op |-> "init", ret |-> TRUE])

\* msg_end()
MsgEnd ==
  MsgStep([MsgState EXCEPT !.curFile = ClosedFile, !.fs = FALSE, !.seen = {}],
          [n |-> msgCall.n + 1, op |-> "end"])

\* msg_write(checksum, timestamp, type3, content)
MsgWrite(a) ==
  \E r \in {msg_write(MsgState, a.checksum, a.timestamp, a.type3, a.content)} :
     MsgStep(r.st, [n |-> msgCall.n + 1, op |-> "write", args |-> a, ret |-> r.ret])

\* msg_roll_segment(): openNewSegment uses g_fs unchecked, so on a log that
\* is not mounted the call faults and the device restarts.
MsgRoll ==
  IF g_fs
  THEN MsgStep(openNewSegment(MsgState),
               [n |-> msgCall.n + 1, op |-> "roll", ret |-> TRUE])
  ELSE MsgStep(Rebooted(MsgState), [n |-> msgCall.n + 1, op |-> "roll"])

\* msg_delete_all(resetSequence)
MsgDeleteAll(resetSequence) ==
  \E r \in {msg_delete_all(MsgState, resetSequence)} :
     MsgStep([r.st EXCEPT !.opened = IF resetSequence /\ r.ret
                                     THEN <<Last(r.st.opened)>>
                                     ELSE r.st.opened],
             [n |-> msgCall.n + 1, op |-> "delete", reset |-> resetSequence,
              ret |-> r.ret])

\* ------------------------------------------------------------------------
\* SpecMsg: the message log on an empty directory and on one whose tail
\* segment an earlier run left almost full
\* ------------------------------------------------------------------------
MaxMsgCalls == 5

HexDigit(d) == IF d < 10 THEN CH_0 + d ELSE CH_A + (d - 10)

\* The checksum text of n: eight hex digits.
Hex8(n) == <<CH_0, CH_0, CH_0, CH_0, CH_0, CH_0, HexDigit(n \div 16), HexDigit(n % 16)>>

\* "2026-11-05_10:30_00", and the same without its last character
TS_OK == <<50, 48, 50, 54, 45, 49, 49, 45, 48, 53, 95, 49, 48, 58, 51, 48, 95, 48, 48>>
TS_SHORT == SubSeq(TS_OK, 1, 18)
\* "TXT", "TX"
TYPE_OK == <<84, 88, 84>>
TYPE_SHORT == <<84, 88>>

CONTENT_EMPTY == Run(120, 0)
CONTENT_MAX == Run(120, MSG_MAX_CONTENT_BYTES)
CONTENT_OVER == Run(120, MSG_MAX_CONTENT_BYTES + 1)

\* How many records of maximal content a segment takes.
TailRecords == MSG_SEGMENT_BYTES \div LineLength(BuildLine(Hex8(1), TS_OK, TYPE_OK, CONTENT_MAX))

\* Segment 1 with one record, segment 2 filled with records of checksums
\* 00000001, 00000002, ..., and ".seq" holding 2.
TailDisk ==
  [segments |-> [q \in {1, 2} |->
                   IF q = 1 THEN <<BuildLine(Hex8(1), TS_OK, TYPE_OK, CONTENT_EMPTY)>>
                   ELSE [i \in 1..TailRecords |->
                           BuildLine(Hex8(i), TS_OK, TYPE_OK, CONTENT_MAX)]],
   seqFile  |-> writeLastSeqToFile(2)]

MsgDisks == {EmptyDisk, TailDisk}

WriteArg(c, t, y, x) == [checksum |-> c, timestamp |-> t, type3 |-> y, content |-> x]

\* Well-formed writes (one checksum is in the tail of TailDisk), and writes
\* with one field out of its length.
MsgWriteArgs ==
  {WriteArg(c, TS_OK, TYPE_OK, x) : c \in {Hex8(1), Hex8(200)},
                                    x \in {CONTENT_EMPTY, CONTENT_MAX}}
  \cup {WriteArg(SubSeq(Hex8(200), 1, 7), TS_OK, TYPE_OK, CONTENT_EMPTY),
        WriteArg(Hex8(200) \o <<CH_0>>, TS_OK, TYPE_OK, CONTENT_EMPTY),
        WriteArg(Hex8(200), TS_SHORT, TYPE_OK, CONTENT_EMPTY),
        WriteArg(Hex8(200), TS_OK, TYPE_SHORT, CONTENT_EMPTY),
        WriteArg(Hex8(200), TS_OK, TYPE_OK, CONTENT_OVER)}

MsgInit == \E disk \in MsgDisks : InitOn(U32Zero, disk)

MsgMore == msgCall.n < MaxMsgCalls

MsgMount == MsgMore /\ MsgInitCall

MsgUnmount == MsgMore /\ MsgEnd

MsgAppend == \E a \in MsgWriteArgs : MsgMore /\ MsgWrite(a)

MsgRotate == MsgMore /\ MsgRoll

MsgDelete == \E resetSequence \in BOOLEAN : MsgMore /\ MsgDeleteAll(resetSequence)

MsgNext == MsgMount \/ MsgUnmount \/ MsgAppend \/ MsgRotate \/ MsgDelete

SpecMsg == MsgInit /\ [][MsgNext]_vars

\* The checksums of the records of a segment file, read at their fixed
\* place after the size prefix.
WrittenChecksums(file) ==
  {SubSeq(file[i].head, IndexOf(file[i].head, PIPE) + 2,
          IndexOf(file[i].head, PIPE) + 1 + MSG_CHECKSUM_HEX_LEN) : i \in 1..Len(file)}

CurrentSegment == IF g_curSeq \in DOMAIN fsSegments THEN fsSegments[g_curSeq] ELSE << >>

FieldsValid(a) ==
  /\ Len(a.checksum) = 8
  /\ Len(a.timestamp) = 19
  /\ Len(a.type3) = 3
  /\ a.content.len <= 10000

WriteStep == msgCall'.n = msgCall.n + 1 /\ msgCall'.op = "write"

\* C24: on a mounted log msg_write returns true exactly when the fields have
\* their lengths and the checksum is not among the records of the current
\* segment (so a checksum that an earlier segment holds is accepted again
\* once the log has rotated); a successful write leaves the current segment,
\* after a size-triggered rotation the new one, with exactly the one record
\* added and the byte counter advanced by its length; a refused write leaves
\* every segment file, the byte counter and the set of seen checksums as
\* they were.  On a log that is not mounted msg_write returns false.
C24_MsgWrite ==
  [][WriteStep =>
       LET a    == msgCall'.args
           line == BuildLine(a.checksum, a.timestamp, a.type3, a.content)
           old  == IF g_curSeq' = g_curSeq THEN CurrentSegment ELSE << >>
       IN  /\ msgCall'.ret
                <=> (/\ g_fs
                     /\ FieldsValid(a)
                     /\ a.checksum \notin WrittenChecksums(CurrentSegment))
           /\ msgCall'.ret
                => /\ CurrentSegment' = Append(old, line)
                   /\ \A q \in DOMAIN fsSegments :
                        q # g_curSeq' => (q \in DOMAIN fsSegments'
                                          /\ fsSegments'[q] = fsSegments[q])
                   /\ g_curBytes' = FileSize(old) + LineLength(line)
                   /\ g_curBytes' <= MSG_SEGMENT_BYTES
                   /\ g_seenChecksums' = WrittenChecksums(CurrentSegment')
           /\ ~msgCall'.ret
                => /\ fsSegments' = fsSegments
                   /\ g_curBytes' = g_curBytes
                   /\ g_seenChecksums' = g_seenChecksums
                   /\ g_curSeq' = g_curSeq
    ]_vars

\* A write was refused as a duplicate, and a later write of a checksum that
\* a full earlier segment holds went into the segment that a write opened.
C24_Witness ==
  /\ msgCall.op = "write"
  /\ msgCall.ret
  /\ msgOpened # << >>
  /\ Last(msgOpened).by = "write"
  /\ Len(CurrentSegment) = 2
  /\ \E q \in DOMAIN fsSegments :
       /\ q < g_curSeq
       /\ Len(fsSegments[q]) = TailRecords
       /\ msgCall.args.checksum \in WrittenChecksums(fsSegments[q])

\* A call of msg_write, msg_roll_segment or msg_delete_all(false) on a
\* mounted log.
SequenceKeepingStep ==
  /\ msgCall'.n = msgCall.n + 1
  /\ g_fs
  /\ \/ msgCall'.op \in {"write", "roll"}
     \/ msgCall'.op = "delete" /\ ~msgCall'.reset

LexBefore(a, b) ==
  \E i \in 1..(Len(a) + 1) :
     /\ i <= Len(b)
     /\ \A j \in 1..(i - 1) : a[j] = b[j]
     /\ i <= Len(a) => a[i] < b[i]

\* The data parcel of a box that has r - 1 data parcels before it in
\* lexicographic key order, without its key and colon.
DataPartAt(box, r) ==
  LET k == CHOOSE x \in DataKeys(box) :
             Cardinality({y \in DataKeys(box) : LexBefore(y, x)}) = r - 1
  IN  SubSeq(box[k], IndexOf(box[k], COLON) + 2, Len(box[k]))

RECURSIVE LexConcat(_, _)
LexConcat(box, r) ==
  IF r > Cardinality(DataKeys(box)) THEN EmptyStr
  ELSE DataPartAt(box, r) \o LexConcat(box, r + 1)

\* C26: the text of every completed reassembly is the concatenation, in
\* ascending lexicographic order of the keys (AA10 before AA2), of the part
\* after the first colon of every stored parcel of index >= 1; the header
\* parcel contributes nothing.
C26_ReassemblyOrder ==
  \A k \in DoneEntries :
     published[k].snap.message = LexConcat(published[k].snap.messageBox, 1)

\* A message of ten data parcels completed, its text not the text sent.
C26_Witness ==
  \E k \in DoneEntries :
     /\ Cardinality(DataKeys(published[k].snap.messageBox)) >= 10
     /\ HeaderKeys(published[k].snap.messageBox) # {}
     /\ published[k].snap.message # Texts[tx]

\* An accepted callback that fed a parcel to the assembler, the parcel's
\* text, key and slot before and after.
FeedStep == Len(ingestLog') = Len(ingestLog) + 1 /\ FedParcel(Last(ingestLog'))

FedBody == ContentOf(Last(ingestLog').sd)

FedKey == ParcelKey(FedBody)

SlotBefore == SlotAt(g_inflight, SlotOf(Last(ingestLog')))

SlotAfter == SlotAt(g_inflight', SlotOf(Last(ingestLog')))

DonePublished == \E k \in (Len(published) + 1)..Len(published') :
                    published'[k].ev.type = BLE_EVT_MESSAGE_DONE

\* C27: a callback that feeds a new index-0 parcel stores it, records the
\* header's sender, destination and checksum, and publishes no MessageDone:
\* the slot stays incomplete whatever data parcels it holds.  A MessageDone
\* is published only by a callback that feeds a parcel of non-zero index to
\* a slot which then holds at least 2 parcels and whose header checksum was
\* recorded before.
C27_HeaderNoReassembly ==
  [][FeedStep =>
       /\ (KeyIndex(FedKey) = 0 /\ FedKey \notin DOMAIN SlotBefore.bm.messageBox)
            => /\ ~DonePublished
               /\ ~SlotAfter.bm.messageCompleted
               /\ SlotAfter.bm.messageBox = MapInsert(SlotBefore.bm.messageBox, FedKey, FedBody)
               /\ SlotAfter.bm.idFromSender = Field(FedBody, 1)
               /\ SlotAfter.bm.idDestination = Field(FedBody, 2)
               /\ SlotAfter.bm.checksum = Field(FedBody, 3)
               /\ SlotAfter.bm.message = EmptyStr
       /\ DonePublished
            => /\ KeyIndex(FedKey) # 0
               /\ Cardinality(DOMAIN Last(published').snap.messageBox) >= 2
               /\ SlotBefore.bm.checksum # EmptyStr
               /\ Last(published').snap.checksum = SlotBefore.bm.checksum
    ]_vars

\* The header arrived after all three data parcels of a message: the slot
\* holds the four parcels and the matching checksum, and nothing completed.
C27_Witness ==
  /\ tx = 2
  /\ Len(ingestLog) = 4
  /\ KeyIndex(ParcelKey(ContentOf(Last(ingestLog).sd))) = 0
  /\ DoneEntries = {}
  /\ \E bm \in {SlotAt(g_inflight, 0).bm} :
       /\ Cardinality(DataKeys(bm.messageBox)) = 3
       /\ bm.checksum = calculateChecksum(Texts[2])
       /\ ~bm.messageCompleted

\* ------------------------------------------------------------------------
\* SpecRing: the dedup ring, filled with fresh payloads up to its size and
\* past it, under repeats of one payload, clock steps and changes of the
\* window
\* ------------------------------------------------------------------------
MaxRingProbe == 3
MaxRingAdvance == 2

\* Clock steps: half the default window, and one millisecond more.
RingDeltas == {DEDUP_WINDOW_MS \div 2, DEDUP_WINDOW_MS \div 2 + 1}

\* Windows the tuning setter is called with: half the default, the default.
RingWindows == {U32(DEDUP_WINDOW_MS \div 2), U32(DEDUP_WINDOW_MS)}

\* The number of fresh payloads after which the repeated payload may come,
\* the clock may move and the window may change: the next entry written is
\* the last of the ring, the one after it wraps the cursor.
RingPoints == {SEEN_N - 1}

RingInit == \E c \in ClockStarts : InitAt(c)

RingProbe == /\ Fillers \in RingPoints
             /\ Cardinality(Probes) < MaxRingProbe
             /\ onResult(Adv(P_HELLO))

RingFiller == /\ Fillers < SEEN_N - 1
              /\ onResult(Adv(FloodText(Fillers + 1)))

RingClock == \E d \in RingDeltas :
               /\ Fillers \in RingPoints
               /\ nAdvance < MaxRingAdvance
               /\ Advance(d)

RingSetWindow == \E ms \in RingWindows :
                   /\ Fillers \in RingPoints
                   /\ ble_set_dedup_window(ms)

RingNext == RingProbe \/ RingFiller \/ RingClock \/ RingSetWindow

SpecRing == RingInit /\ [][RingNext]_vars

\* An entry of the ring that holds a key and is not older than the window.
Live(e, now, window) == e.key # EmptyStr /\ ~U32Gt(U32Sub(now, e.ts), window)

\* A callback whose payload passed validation and was found in the ring.
DedupHitStep ==
  /\ Len(ingestLog') = Len(ingestLog) + 1
  /\ Last(ingestLog').valid
  /\ ~Last(ingestLog').accepted

\* The latest earlier callback that published the payload of callback j,
\* 0 if none.
LastPublishedSame(log, j) ==
  LET same == {i \in 1..(j - 1) : log[i].sd = log[j].sd /\ log[i].accepted}
  IN  IF same = {} THEN 0 ELSE CHOOSE i \in same : \A k \in same : k <= i

\* C28: a callback whose payload is found in the ring changes nothing: the
\* matching live entry keeps its timestamp, the cursor stays, every live
\* entry stays, and nothing is published.  So a payload whose latest
\* published sighting is older than the window is published again, however
\* recently it was repeated.
C28_HitNoRefresh ==
  [][/\ DedupHitStep
          => /\ \E i \in SeenIdx :
                  /\ Live(SeenAt(g_seen, i), millis, g_dedupe_ms)
                  /\ SeenAt(g_seen, i).key = Last(ingestLog').sd
                  /\ SeenAt(g_seen', i).ts = SeenAt(g_seen, i).ts
             /\ g_seen_head' = g_seen_head
             /\ \A i \in SeenIdx :
                  Live(SeenAt(g_seen, i), millis, g_dedupe_ms)
                    => SeenAt(g_seen', i) = SeenAt(g_seen, i)
             /\ published' = published
     /\ (/\ Len(ingestLog') = Len(ingestLog) + 1
         /\ Last(ingestLog').valid
         /\ LastPublishedSame(ingestLog', Len(ingestLog')) # 0
         /\ U32Gt(U32Sub(millis,
                         ingestLog[LastPublishedSame(ingestLog', Len(ingestLog'))].now),
                  g_dedupe_ms))
          => Last(ingestLog').accepted
    ]_vars

\* The payload was published, repeated half a window later without being
\* published, and published again one millisecond past the full window
\* after the first sighting.
C28_Witness ==
  \E a, b, c \in Probes :
     /\ a < b /\ b < c
     /\ \A k \in {a, b, c} : ingestLog[k].window = U32(DEDUP_WINDOW_MS)
     /\ ingestLog[a].accepted /\ ~ingestLog[b].accepted /\ ingestLog[c].accepted
     /\ AgeAt(a, b) = U32(DEDUP_WINDOW_MS \div 2)
     /\ AgeAt(b, c) = U32(DEDUP_WINDOW_MS \div 2 + 1)

\* C29: no two live entries of the ring hold the same key, and the write
\* cursor is in 0..127.
C29_RingUnique ==
  /\ g_seen_head \in 0..127
  /\ \E live \in {{i \in DOMAIN g_seen : Live(g_seen[i], millis, g_dedupe_ms)}} :
       Cardinality({g_seen[i].key : i \in live}) = Cardinality(live)

\* The cursor has wrapped, the window is not the initial one, and the
\* payload that expired and was published again is live in the ring.
C29_Witness ==
  /\ Cardinality({k \in 1..Len(ingestLog) : ingestLog[k].accepted}) > SEEN_N
  /\ g_dedupe_ms # U32(DEDUP_WINDOW_MS)
  /\ Cardinality({k \in Probes : ingestLog[k].accepted}) >= 2
  /\ \E i \in DOMAIN g_seen :
       g_seen[i].key = P_HELLO /\ Live(g_seen[i], millis, g_dedupe_ms)

\* The parcel map of the fed slot after the callback holds what it held
\* before and the fed parcel.
ParcelAdded ==
  /\ DOMAIN SlotAfter.bm.messageBox = DOMAIN SlotBefore.bm.messageBox \cup {FedKey}
  /\ \A k \in DOMAIN SlotBefore.bm.messageBox :
       SlotAfter.bm.messageBox[k] = SlotBefore.bm.messageBox[k]
  /\ SlotAfter.bm.messageBox[FedKey] = FedBody

\* The text a reassembly attempt of this callback works on.
AttemptBox ==
  [k \in DOMAIN SlotBefore.bm.messageBox \cup {FedKey} |->
     IF k = FedKey THEN FedBody ELSE SlotBefore.bm.messageBox[k]]

\* The callback feeds a new data parcel to a slot that has its header and
\* will hold at least 2 parcels: a reassembly attempt is made.
AttemptStep ==
  /\ FeedStep
  /\ KeyIndex(FedKey) >= 1
  /\ FedKey \notin DOMAIN SlotBefore.bm.messageBox
  /\ SlotBefore.bm.checksum # EmptyStr
  /\ ~SlotBefore.bm.messageCompleted

\* C30: a reassembly attempt whose text has a checksum other than the
\* header's publishes nothing but the parcel's SingleText event and leaves
\* the slot accumulating: not completed, header fields as before, every
\* parcel received so far and the new one stored.  An attempt whose text
\* has the header's checksum completes: MessageDone is published with that
\* text, and the slot is reset.
C30_MismatchSilent ==
  [][AttemptStep =>
       \A box \in {AttemptBox} : \A text \in {LexConcat(box, 1)} :
         IF calculateChecksum(text) # SlotBefore.bm.checksum
         THEN /\ Len(published') = Len(published) + 1
              /\ Last(published').ev.type = BLE_EVT_SINGLE_TEXT
              /\ ParcelAdded
              /\ ~SlotAfter.bm.messageCompleted
              /\ SlotAfter.bm.message = EmptyStr
              /\ SlotAfter.bm.checksum = SlotBefore.bm.checksum
              /\ SlotAfter.bm.idFromSender = SlotBefore.bm.idFromSender
              /\ SlotAfter.bm.idDestination = SlotBefore.bm.idDestination
         ELSE /\ Len(published') = Len(published) + 2
              /\ published'[Len(published) + 1].ev.type = BLE_EVT_SINGLE_TEXT
              /\ Last(published').ev.type = BLE_EVT_MESSAGE_DONE
              /\ Last(published').snap.message = text
              /\ Last(published').snap.messageBox = box
              /\ SlotAfter = EmptySlot
    ]_vars

\* The three-parcel message completed with its third data parcel, after the
\* attempts made with the first and with the first two had not matched.
C30_Witness ==
  /\ tx = 2
  /\ Len(ingestLog) = 4
  /\ KeyIndex(ParcelKey(ContentOf(ingestLog[1].sd))) = 0
  /\ Len(published) = 5
  /\ Last(published).ev.type = BLE_EVT_MESSAGE_DONE
  /\ Last(published).snap.message = Texts[2]

\* ------------------------------------------------------------------------
\* SpecDup: parcels of session AA, among them parcels that repeat a key with
\* the same or with another text
\* ------------------------------------------------------------------------
MaxDupIngest == 4
MaxDupAdvance == 1

\* ">AA1:World", ">AA2:Hello": the keys of P_A1 and P_A2 with other texts
P_A1X == <<62, 65, 65, 49, 58, 87, 111, 114, 108, 100>>
P_A2X == <<62, 65, 65, 50, 58, 72, 101, 108, 108, 111>>

DupAdverts == {Adv(P_A0), Adv(P_A1), Adv(P_A2), Adv(P_A1X), Adv(P_A2X), Adv(P_B0)}

DupInit == InitAt(U32(DEDUP_WINDOW_MS))

DupIngest == \E d \in DupAdverts : Len(ingestLog) < MaxDupIngest /\ onResult(d)

\* The clock passes the dedup window: a payload heard before is accepted again.
DupClock == nAdvance < MaxDupAdvance /\ Advance(DEDUP_WINDOW_MS + 1)

DupNext == DupIngest \/ DupClock

SpecDup == DupInit /\ [][DupNext]_vars

\* The callback feeds a parcel whose key the slot already holds.
RepeatStep == FeedStep /\ FedKey \in DOMAIN SlotBefore.bm.messageBox

\* C31: a fed parcel whose key is already stored in the slot leaves the
\* slot's message (parcel map with the texts stored first, header fields,
\* completion flag, message text) as it was, and publishes nothing but the
\* parcel's SingleText event: no reassembly completes the message, even when
\* the stored parcels have the header's checksum.
C31_RepeatedKeyIgnored ==
  [][RepeatStep =>
       /\ SlotAfter.bm = SlotBefore.bm
       /\ Len(published') = Len(published) + 1
       /\ Last(published').ev.type = BLE_EVT_SINGLE_TEXT
    ]_vars

\* Key AA1 was fed again with another text, the text that would complete the
\* message; the slot keeps the first text and is not complete.
C31_Witness ==
  /\ Len(ingestLog) = 4
  /\ Last(ingestLog).accepted
  /\ Last(ingestLog).sd = P_A1
  /\ LET bm == SlotAt(g_inflight, inflight_index_2(ContentOf(P_A1))).bm
     IN  /\ ParcelKey(ContentOf(P_A1)) \in DOMAIN bm.messageBox
         /\ bm.messageBox[ParcelKey(ContentOf(P_A1))] = ContentOf(P_A1X)
         /\ ParcelKey(ContentOf(P_A2)) \in DOMAIN bm.messageBox
         /\ bm.messageBox[ParcelKey(ContentOf(P_A2))] = ContentOf(P_A2)
         /\ bm.checksum = calculateChecksum(T_HelloWorld)
         /\ ~bm.messageCompleted
  /\ DoneEntries = {}

\* ------------------------------------------------------------------------
\* SpecAddr: the same payloads heard from two radio addresses
\* ------------------------------------------------------------------------
MaxAddrIngest == 3
MaxAddrAdvance == 1

MAC_2 == <<6, 5, 4, 3, 2, 1>>

Macs == {MAC_1, MAC_2}

AddrPayloads == {P_HELLO, P_B0, P_B1}

AddrDeltas == {1, DEDUP_WINDOW_MS}

AddrInit == InitAt(U32Zero)

AddrIngest == \E sd \in AddrPayloads, m \in Macs :
                /\ Len(ingestLog) < MaxAddrIngest
                /\ onResult([Adv(sd) EXCEPT !.mac = m])

AddrClock == \E dt \in AddrDeltas : nAdvance < MaxAddrAdvance /\ Advance(dt)

AddrNext == AddrIngest \/ AddrClock

SpecAddr == AddrInit /\ [][AddrNext]_vars

\* The engine after static initialisation.
EngineStart ==
  [millis |-> U32Zero, ring |-> ArrInit, head |-> 0,
   window |-> U32(DEDUP_WINDOW_MS), inflight |-> ArrInit,
   Q |-> [q |-> [i \in QIdx |-> ZeroEvent], head |-> 0, tail |-> 0, dropped |-> 0],
   npub |-> 0]

\* The events published by the callbacks of a log (payloads, times and windows
\* as logged), run from the initial state with every advertisement coming
\* from the address mac.
RECURSIVE EventsHeardFrom(_, _, _, _)
EventsHeardFrom(log, k, mac, st) ==
  IF k > Len(log) THEN << >>
  ELSE LET o == onResultOutcome([Adv(log[k].sd) EXCEPT !.mac = mac],
                                [st EXCEPT !.millis = log[k].now,
                                           !.window = log[k].window])
       IN  o.events \o
           EventsHeardFrom(log, k + 1, mac,
                           [st EXCEPT !.ring = o.ring, !.head = o.head,
                                      !.inflight = o.inflight, !.Q = o.Q,
                                      !.npub = st.npub + Len(o.events)])

\* An event without the sender's address and signal strength.
Content(ev) ==
  IF ev.type = BLE_EVT_SINGLE_TEXT
  THEN [type |-> ev.type, text |-> ev.data.text, text_len |-> ev.data.text_len]
  ELSE [type |-> ev.type, data |-> ev.data]

Contents(events) == [k \in 1..Len(events) |-> Content(events[k])]

\* C32: the events published by a run (number, types, texts, order) are
\* those published by the run with the same payloads at the same times in
\* which every advertisement comes from one address, whichever address.
C32_AddressIndependent ==
  \A m \in Macs :
     Contents(EventsHeardFrom(ingestLog, 1, m, EngineStart))
       = Contents([k \in 1..Len(published) |-> published[k].ev])

\* The same text came from two addresses within the window and was
\* published once.
C32_Witness ==
  /\ \E a, b \in 1..Len(ingestLog) :
        /\ a < b
        /\ ingestLog[a].sd = P_HELLO /\ ingestLog[b].sd = P_HELLO
        /\ ingestLog[a].mac # ingestLog[b].mac
        /\ ingestLog[a].accepted /\ ~ingestLog[b].accepted
  /\ Len(published) = 1

\* ------------------------------------------------------------------------
\* SpecOrder: the ingest callback statement by statement through the
\* publication of SingleText, the feed, the publication of MessageDone, the
\* legacy hook and the reset, with the hook linked in or not
\* ------------------------------------------------------------------------
MaxOrdIngest == 4

OrdAdverts == {Adv(P_HELLO), Adv(P_A0), Adv(P_A1), Adv(P_A2), Adv(P_B0), Adv(P_B1)}

OrdInit == \E hook \in BOOLEAN : InitLinked(U32(DEDUP_WINDOW_MS), EmptyDisk, hook)

\* Lines 228-267: validation, dedup, the SingleText publication; then on to
\* the assembler (270-275) or straight to the sweep (313).
OrdGate ==
  \E d \in OrdAdverts :
  \E g \in {IngestGate(d, g_seen, g_seen_head, g_dedupe_ms, millis)} :
  /\ pcP = "idle"
  /\ g_evt_mux = "free"
  /\ Len(ingestLog) < MaxOrdIngest
  /\ g_seen' = g.ring
  /\ g_seen_head' = g.head
  /\ IF ~g.accept
     THEN /\ ingestLog' = Append(ingestLog, IsoLogEntry(d, millis, g, 0))
          /\ UNCHANGED <<queueVars, published, pcP, prod>>
     ELSE \E ev \in {SingleTextEvent(g.payload, d.rssi, d.mac, Len(published) + 1)} :
          \E Q1 \in {q_push(TheQueue, ev)} :
          /\ g_evt_q' = Q1.q
          /\ g_evt_head' = Q1.head
          /\ g_evt_tail' = Q1.tail
          /\ g_evt_dropped' = Q1.dropped
          /\ published' = Append(published, [ev |-> ev, snap |-> NoMessage])
          /\ prod' = [d |-> d, now |-> millis, g |-> g, npub |-> 1,
                      idx |-> inflight_index_2(g.content)]
          /\ pcP' = IF is_parcel_like(g.content) /\ inflight_index_2(g.content) >= 0
                    THEN "add" ELSE "sweep"
          /\ UNCHANGED ingestLog
  /\ UNCHANGED <<g_dedupe_ms, asmVars, muxVars, subVars, clockVars, pcC, cons,
                 txVars, calls, popped>>

\* Lines 277-305: the completion check and the MessageDone publication.
OrdCheck ==
  /\ pcP = "check"
  /\ g_evt_mux = "free"
  /\ \E slot \in {SlotAt(g_inflight, prod.idx)} :
       IF slot.bm.messageCompleted
       THEN \E ev2 \in {MessageDoneEvent(prod.g.content, slot.bm, Len(published) + 1)} :
            \E Q2 \in {q_push(TheQueue, ev2)} :
            /\ g_evt_q' = Q2.q
            /\ g_evt_head' = Q2.head
            /\ g_evt_tail' = Q2.tail
            /\ g_evt_dropped' = Q2.dropped
            /\ published' = Append(published, [ev |-> ev2, snap |-> slot.bm])
            /\ prod' = [prod EXCEPT !.npub = 2]
            /\ pcP' = "hook"
       ELSE /\ pcP' = "sweep"
            /\ UNCHANGED <<queueVars, published, prod>>
  /\ UNCHANGED <<dedupVars, asmVars, muxVars, subVars, clockVars, pcC, cons, txVars,
                 calls, popped, ingHist>>

\* Line 307: if (messageCompleted) messageCompleted(slot.bm).
OrdHook ==
  /\ pcP = "hook"
  /\ hookLog' = IF messageCompleted
                THEN Append(hookLog, [bm   |-> SlotAt(g_inflight, prod.idx).bm,
                                      idx  |-> prod.idx,
                                      npub |-> Len(published)])
                ELSE hookLog
  /\ pcP' = "reset"
  /\ UNCHANGED <<dedupVars, asmVars, queueVars, muxVars, subVars, clockVars, prod,
                 pcC, cons, tx, g_scan, g_scanActive, adv, pcS, snd, radioLog,
                 msgVars, messageCompleted, busHist, ingHist>>

\* A reset that does not wait for the hook.
OrdReset_early ==
  /\ pcP = "hook"
  /\ SlotAt(g_inflight, prod.idx) # EmptySlot
  /\ g_inflight' = ArrSet(g_inflight, prod.idx,
                          inflight_reset(SlotAt(g_inflight, prod.idx)), EmptySlot)
  /\ UNCHANGED <<dedupVars, queueVars, muxVars, subVars, clockVars, pcP, prod, pcC,
                 cons, txVars, busHist, ingHist>>

\* Line 308: inflight_reset(slot).
OrdReset ==
  /\ pcP = "reset"
  /\ g_inflight' = ArrSet(g_inflight, prod.idx,
                          inflight_reset(SlotAt(g_inflight, prod.idx)), EmptySlot)
  /\ pcP' = "sweep"
  /\ UNCHANGED <<dedupVars, queueVars, muxVars, subVars, clockVars, prod, pcC,
                 cons, txVars, busHist, ingHist>>

OrdAdd == IsoAdd

OrdTouch == IsoTouch

OrdSweep == IsoSweep

OrdNext == OrdGate \/ OrdAdd \/ OrdTouch \/ OrdCheck \/ OrdHook \/ OrdReset \/ OrdSweep

SpecOrder == OrdInit /\ [][OrdNext]_vars

\* The event pushed last is the one at the slot before the queue's head.
LastQueued == g_evt_q[(g_evt_head + BLE_EVT_QUEUE_DEPTH - 1) % BLE_EVT_QUEUE_DEPTH]

\* Entry j of the publication history is the SingleText event of a payload
\* whose content is the parcel text.
SingleTextOf(j, parcel) ==
  /\ published[j].ev.type = BLE_EVT_SINGLE_TEXT
  /\ ContentOf(published[j].ev.data.text) = parcel

\* A MessageDone event comes directly after the SingleText event of a parcel
\* of its message, and after the SingleText events of all its parcels.
DoneAfterSingles ==
  \A k \in DoneEntries :
     LET box == published[k].snap.messageBox
     IN  /\ k > 1
         /\ \E key \in DOMAIN box : SingleTextOf(k - 1, box[key])
         /\ \A key \in DOMAIN box : \E j \in 1..(k - 1) : SingleTextOf(j, box[key])

\* The hook is called once per completed message when it is linked in, and
\* never otherwise.
HookCalls ==
  /\ ~messageCompleted => hookLog = << >>
  /\ (messageCompleted /\ pcP \in {"reset", "sweep", "idle"})
        => /\ Len(hookLog) = Cardinality(DoneEntries)
           /\ \A k \in 1..Len(hookLog) : published[hookLog[k].npub].snap = hookLog[k].bm

\* The parcel is fed when its SingleText event is the latest publication.
FeedAfterSingle ==
  (pcP = "add" /\ pcP' = "touch")
     => /\ Last(published).ev.type = BLE_EVT_SINGLE_TEXT
        /\ Last(published).ev.data.text = prod.g.payload
        /\ LastQueued = Last(published).ev
        /\ published' = published

\* The hook is called when MessageDone is the latest event enqueued and the
\* slot still holds the completed message it is passed.
HookAfterDone ==
  hookLog' # hookLog
     => /\ Last(published).ev.type = BLE_EVT_MESSAGE_DONE
        /\ LastQueued = Last(published).ev
        /\ Last(hookLog').bm = Last(published).snap
        /\ Last(hookLog').bm.messageCompleted
        /\ SlotAt(g_inflight, Last(hookLog').idx).bm = Last(hookLog').bm
        /\ g_inflight' = g_inflight

\* The slot is reset after the hook's turn.
ResetAfterHook ==
  (pcP = "reset" /\ pcP' = "sweep")
     => /\ SlotAt(g_inflight, prod.idx).bm.messageCompleted
        /\ SlotAt(g_inflight', prod.idx) = EmptySlot
        /\ hookLog' = hookLog
        /\ published' = published

\* C33: within a callback the SingleText event is published before the
\* parcel is fed to the assembler; MessageDone is published directly after
\* the completing parcel's SingleText and after the SingleText events of all
\* parcels of the message; the legacy hook, when linked in, is called with
\* the completed message after MessageDone is enqueued and before the slot
\* is reset, and is not called when absent.
C33_EventOrder ==
  /\ [](DoneAfterSingles /\ HookCalls)
  /\ [][FeedAfterSingle /\ HookAfterDone /\ ResetAfterHook]_vars

\* With the hook linked in, the three parcels of a message were heard, the
\* message completed, the hook was called and the callback returned.
C33_Witness ==
  /\ messageCompleted
  /\ pcP = "idle"
  /\ Len(hookLog) = 1
  /\ hookLog[1].bm.message = T_HelloWorld
  /\ Len(published) = 4
  /\ Last(published).ev.type = BLE_EVT_MESSAGE_DONE
  /\ SlotAt(g_inflight, hookLog[1].idx) = EmptySlot

\* ------------------------------------------------------------------------
\* SpecCmd: a BluetoothMessage object given parcels and colon-free texts
\* through addMessageParcel
\* ------------------------------------------------------------------------
MaxCmdCalls == 3

\* "PING", "STATUS", the empty text; "AA0:SND:DST:<checksum of Howdy>",
\* "AA1:Howdy", "AA1:Hello", "000:x"
CMD_PING   == <<80, 73, 78, 71>>
CMD_STATUS == <<83, 84, 65, 84, 85, 83>>
CmdTexts == {CMD_PING, CMD_STATUS, EmptyStr,
             <<65, 65, 48, 58, 83, 78, 68, 58, 68, 83, 84, 58>> \o calculateChecksum(T_Howdy),
             ContentOf(P_B1), ContentOf(P_A1),
             <<48, 48, 48, 58, 120>>}

CmdCalls == IF "calls" \in DOMAIN prod THEN prod.calls ELSE << >>

CmdMessage == IF "bm" \in DOMAIN prod THEN prod.bm ELSE NewBluetoothMessage

CmdInit == InitAt(U32Zero)

\* bm.addMessageParcel(text); the history keeps the text and the object
\* before and after the call.
CmdAdd == \E text \in CmdTexts :
  /\ pcP = "idle"
  /\ Len(CmdCalls) < MaxCmdCalls
  /\ \E after \in {addMessageParcel(CmdMessage, text)} :
       prod' = [bm    |-> after,
                calls |-> Append(CmdCalls, [text |-> text, before |-> CmdMessage,
                                            after |-> after])]
  /\ UNCHANGED <<dedupVars, asmVars, queueVars, muxVars, subVars, clockVars,
                 pcP, pcC, cons, txVars, busHist, ingHist>>

\* BluetoothMessage(): a new object.
CmdNew ==
  /\ pcP = "idle"
  /\ CmdCalls # << >>
  /\ Len(CmdCalls) < MaxCmdCalls
  /\ CmdMessage # NewBluetoothMessage
  /\ prod' = [bm |-> NewBluetoothMessage, calls |-> CmdCalls]
  /\ UNCHANGED <<dedupVars, asmVars, queueVars, muxVars, subVars, clockVars,
                 pcP, pcC, cons, txVars, busHist, ingHist>>

CmdNext == CmdAdd \/ CmdNew

SpecCmd == CmdInit /\ [][CmdNext]_vars

\* The latest call gave a text without a colon.
ColonFreeCall ==
  /\ CmdCalls # << >>
  /\ IndexOf(Last(CmdCalls).text, COLON) < 0

KEY_000 == <<48, 48, 48>>

\* The message completed with the latest call's text as it is: stored under
\* "000" unless that key was taken, nothing else touched.
CompletedLiterally ==
  LET text   == Last(CmdCalls).text
      before == Last(CmdCalls).before
      bm     == Last(CmdCalls).after
  IN  /\ bm.messageCompleted
      /\ bm.message = text
      /\ bm.checksum = before.checksum
      /\ bm.idFromSender = before.idFromSender
      /\ bm.idDestination = before.idDestination
      /\ bm.id = before.id
      /\ DOMAIN bm.messageBox = DOMAIN before.messageBox \cup {KEY_000}
      /\ \A k \in DOMAIN before.messageBox : bm.messageBox[k] = before.messageBox[k]
      /\ KEY_000 \notin DOMAIN before.messageBox => bm.messageBox[KEY_000] = text

MaxTouchIngest == 3
MaxTouchAdvance == 2

\* Uptime at the first callback: 0, 1, and 2^32 - 1.
TouchStarts == {U32Zero, U32(1), U32Sub(U32Zero, U32(1))}

TouchAdverts == {Adv(P_A0), Adv(P_A1), Adv(P_BB1)}

\* An idle period of 2^32 - (TTL + 1) ms, about 49.7 days less ten minutes.
LongIdle == U32Sub(U32Zero, U32(INFLIGHT_TTL_MS + 1))

TouchInit == \E c \in TouchStarts : InitAt(c)

TouchIngest == \E d \in TouchAdverts : Len(ingestLog) < MaxTouchIngest /\ onResult(d)

TouchClock == nAdvance < MaxTouchAdvance /\ Advance(1)

\* No advertisement is accepted for the long idle period.
TouchSleep ==
  /\ nAdvance < MaxTouchAdvance
  /\ millis' = U32Add(millis, LongIdle)
  /\ nAdvance' = nAdvance + 1
  /\ UNCHANGED <<dedupVars, asmVars, queueVars, muxVars, subVars, procVars,
                 txVars, busHist, ingHist>>

TouchPurge == ble_inflight_purge_now

TouchNext == TouchIngest \/ TouchClock \/ TouchSleep \/ TouchPurge

SpecTouch == TouchInit /\ [][TouchNext]_vars

\* The slot holds a parcel or a header field.
Occupied(slot) == slot.bm # NewBluetoothMessage

\* C35: in every reachable state a slot that holds a parcel or a header
\* field has lastTouch # 0, whatever the clock value of the callback that
\* fed it (0 and values after the wrap included).
C35_OccupiedTouched ==
  \A i \in DOMAIN g_inflight :
     Occupied(g_inflight[i]) => g_inflight[i].lastTouchMs # U32Zero

\* The inflight table a forced purge called now would leave.
PurgedNow ==
  inflight_sweep(g_inflight, U32Add(U32Add(millis, U32(INFLIGHT_TTL_MS)), U32(1)))

\* C40: a forced purge, called in any reachable state, leaves every inflight
\* slot empty: it resets every occupied, not completed slot whatever its age.
C40_PurgeEmptiesAll ==
  \A i \in DOMAIN g_inflight : SlotAt(PurgedNow, i) = EmptySlot

\* ------------------------------------------------------------------------
\* SpecFlow: the event queue filled to within three events of its depth,
\* then single texts and completing parcels, with drains in between
\* ------------------------------------------------------------------------
MaxFlowBranch == 4
MaxFlowTicks == 2

FlowFill == BLE_EVT_QUEUE_DEPTH - 3

FlowInit == InitAt(U32Zero)

\* The advertisements after the fill: a fresh text, or the header or the
\* data parcel of "Howdy" (the data parcel after the header publishes two
\* events).
FlowIngest ==
  /\ Len(ingestLog) < FlowFill + MaxFlowBranch
  /\ IF Len(ingestLog) < FlowFill
     THEN onResult(Adv(FloodText(Len(ingestLog) + 1)))
     ELSE \E sd \in {FloodText(Len(ingestLog) + 1), P_B0, P_B1} : onResult(Adv(sd))

FlowTick == /\ TicksDone < MaxFlowTicks
            /\ Len(ingestLog) >= FlowFill
            /\ ~q_empty(TheQueue)
            /\ ble_tick

FlowNext == FlowIngest \/ FlowTick

SpecFlow == FlowInit /\ [][FlowNext]_vars

\* Every event published was popped, or counted as dropped, or is queued.
Conservation ==
  Len(published) = Len(popped) + g_evt_dropped + QLen(TheQueue)

\* The counter grows by the number of publications of the step that found
\* the queue holding all it can hold (depth - 1 events), and by nothing else.
DropsCounted ==
  LET pushes == Len(published') - Len(published)
      room   == (BLE_EVT_QUEUE_DEPTH - 1) - QLen(TheQueue)
  IN  g_evt_dropped' = g_evt_dropped + (IF pushes > room THEN pushes - room ELSE 0)

\* C36: in every reachable state the number of events published equals the
\* number popped by ble_tick plus the dropped counter plus the number
\* queued; the dropped counter never decreases, and it increases only at a
\* publication that finds the queue full, by one per such publication.
C36_EventConservation ==
  /\ []Conservation
  /\ [][DropsCounted]_vars

\* Events were dropped, events were popped, events are queued, and a
\* callback that published two events dropped two.
C36_Witness ==
  /\ g_evt_dropped >= 3
  /\ Len(popped) > 0
  /\ QLen(TheQueue) > 0
  /\ \E k \in DoneEntries :
        /\ k = Len(published)
        /\ ~\E j \in 1..Len(popped) : popped[j].npub < k - 2
        /\ g_evt_dropped = k - (BLE_EVT_QUEUE_DEPTH - 1)

\* ------------------------------------------------------------------------
\* SpecLive: the main loop calling ble_tick again and again while the radio
\* task delivers advertisements one by one or in a burst as long as the
\* queue is deep; a subscriber comes and goes
\* ------------------------------------------------------------------------
MaxLiveSingles == 2

\* Advertisements heard between two iterations of the main loop.
LiveBursts == {1, BLE_EVT_QUEUE_DEPTH}

LiveTotal == BLE_EVT_QUEUE_DEPTH + MaxLiveSingles

\* One more callback, for advertisement number first, after the callbacks
\* gathered in acc = [st, pubs, log]: the engine state, what was published
\* and what was logged.
BurstStep(acc, first) ==
  CHOOSE r \in
    {[st   |-> [acc.st EXCEPT !.ring = o.ring, !.head = o.head,
                              !.inflight = o.inflight, !.Q = o.Q,
                              !.npub = acc.st.npub + Len(o.events)],
      pubs |-> acc.pubs \o PubEntries(o),
      log  |-> Append(acc.log,
                      [sd |-> FloodText(first), now |-> acc.st.millis,
                       valid |-> o.valid, accepted |-> o.accepted,
                       npub |-> Len(o.events), window |-> acc.st.window,
                       mac |-> MAC_1])]
       : o \in {onResultOutcome(Adv(FloodText(first)), acc.st)}} : TRUE

\* n callbacks in a row, the first for advertisement number first.
RECURSIVE BurstOutcome(_, _, _)
BurstOutcome(acc, first, n) ==
  IF n = 0 THEN acc
  ELSE CHOOSE r \in {BurstOutcome(a1, first + 1, n - 1) : a1 \in {BurstStep(acc, first)}} : TRUE

LiveInit == InitAt(U32Zero)

\* AdvCb::onResult, n times before the main loop runs again: one burst and
\* up to MaxLiveSingles single advertisements, in any order.
LiveBurst ==
  \E n \in LiveBursts :
  /\ IF n = 1 THEN Len(ingestLog) % BLE_EVT_QUEUE_DEPTH < MaxLiveSingles
              ELSE Len(ingestLog) < BLE_EVT_QUEUE_DEPTH
  /\ pcP = "idle"
  /\ g_evt_mux = "free"
  /\ \E b \in {BurstOutcome([st |-> EngineState, pubs |-> << >>, log |-> << >>],
                              Len(ingestLog) + 1, n)} :
       /\ g_seen' = b.st.ring
       /\ g_seen_head' = b.st.head
       /\ g_inflight' = b.st.inflight
       /\ g_evt_q' = b.st.Q.q
       /\ g_evt_head' = b.st.Q.head
       /\ g_evt_tail' = b.st.Q.tail
       /\ g_evt_dropped' = b.st.Q.dropped
       /\ published' = published \o b.pubs
       /\ ingestLog' = ingestLog \o b.log
  /\ UNCHANGED <<g_dedupe_ms, muxVars, subVars, clockVars, procVars, txVars,
                 calls, popped>>

LiveTick == ble_tick

\* One subscriber, which registers once.
LiveSubscribe == subLog = << >> /\ ble_subscribe(1, 0)

LiveUnsubscribe == \E token \in 1..BLE_MAX_SUBSCRIBERS :
                     /\ g_subs[token - 1].used # 0
                     /\ ble_unsubscribe(token)

LiveNext == LiveBurst \/ LiveTick \/ LiveSubscribe \/ LiveUnsubscribe

\* loop() calls ble_tick() in every iteration.
SpecLive == LiveInit /\ [][LiveNext]_vars /\ WF_vars(LiveTick)

\* The first event, the last of a burst, the last of all.  (An empty queue
\* holds none of the events published so far, so the queue becoming empty
\* after the last publication settles every other event as well.)
LivePubs == {1, BLE_EVT_QUEUE_DEPTH, LiveTotal}

QueuedPubs == {QContents(TheQueue)[k].pub : k \in 1..QLen(TheQueue)}

PoppedPubSet == {popped[j].pub : j \in 1..Len(popped)}

\* Event number k was published and is no longer queued.
Gone(k) == Len(published) >= k /\ k \notin QueuedPubs

\* Every event that left the queue was popped by ble_tick, or was evicted,
\* and the evicted ones are those the dropped counter counts.
Accounted ==
  Cardinality({k \in 1..Len(published) : k \notin QueuedPubs /\ k \notin PoppedPubSet})
    = g_evt_dropped

\* A popped event is offered to the subscribers registered at that moment.
OfferedToRegistered ==
  \A m \in (Len(popped) + 1)..Len(popped') :
     {calls'[c].slot : c \in {x \in (Len(calls) + 1)..Len(calls') :
                                calls'[x].ev.pub = popped'[m].pub}}
       = InUse

\* C37: with ble_tick called again and again, every published event
\* eventually leaves the queue, popped and offered to the subscribers
\* registered at that moment or evicted and counted as dropped; and once
\* publishing has stopped the queue becomes empty and stays empty.
C37_DrainLiveness ==
  /\ \A k \in LivePubs : (Len(published) >= k) ~> Gone(k)
  /\ <>[]q_empty(TheQueue)
  /\ []Accounted
  /\ [][OfferedToRegistered]_vars

\* A burst filled the queue and evicted events, and all that was published
\* has left the queue: some popped and offered to a subscriber, some dropped.
C37_Witness ==
  /\ Len(published) = LiveTotal
  /\ q_empty(TheQueue)
  /\ g_evt_dropped >= 1
  /\ Len(popped) = Len(published) - g_evt_dropped
  /\ Len(calls) >= 1

\* ------------------------------------------------------------------------
\* SpecAir: a sender puts the parcels of a message on air with
\* ble_send_text, one burst per parcel, and a receiving engine hears each
\* burst once while it is on air
\* ------------------------------------------------------------------------
MaxAirChunks == 9

\* 10 bytes, one byte less than a chunk, exactly one chunk, two chunks and a
\* byte, and MaxAirChunks chunks with a byte (a two-digit last index).
AirTexts ==
  <<T_HelloWorld, PatternText(TEXT_LENGTH_PER_PARCEL - 1),
    PatternText(TEXT_LENGTH_PER_PARCEL), PatternText(2 * TEXT_LENGTH_PER_PARCEL + 1),
    PatternText(MaxAirChunks * TEXT_LENGTH_PER_PARCEL + 1)>>

AirMessages ==
  [t \in 1..Len(AirTexts) |-> ComposeMessage(ID_AA, FROM_SND, TO_DST, AirTexts[t])]

AirBox == AirMessages[tx].messageBox

\* The number of the parcel of burst number n (n = 0, 1, ...) of a message
\* of c parcels: the header first, then the data parcels ascending for the
\* odd texts and descending for the even ones.
AirOrder(n, c) == IF tx % 2 = 1 \/ n = 0 THEN n ELSE c - n

AirInit == InitAt(U32(DEDUP_WINDOW_MS))

AirCompose == \E t \in 1..Len(AirTexts) :
  /\ tx = 0
  /\ tx' = t
  /\ UNCHANGED <<dedupVars, asmVars, queueVars, muxVars, subVars, clockVars,
                 procVars, radioVars, busHist, ingHist>>

\* The sender's call for its next parcel, the text as the assembler stored
\* it (no marker), with the pause of its own scan as in main.cpp:82.
AirSend == \E box \in {IF tx = 0 THEN << >> ELSE AirBox} :
  /\ tx # 0
  /\ nAdvance < Cardinality(DOMAIN box)
  /\ Len(ingestLog) = nAdvance
  /\ SendEnter([have |-> TRUE,
                bytes |-> box[ID_AA \o StringOfInt(
                                 AirOrder(nAdvance, Cardinality(DOMAIN box)))],
                pause |-> TRUE])

\* The sender's own scan, switched on before or after composing.
AirListen == nAdvance = 0 /\ ~g_scanActive /\ ble_start_listening

\* The receiving engine's scan callback for the service data on air.
AirHear ==
  /\ adv.on
  /\ Len(ingestLog) = nAdvance - (IF pcS = "hold" THEN 0 ELSE 1)
  /\ onResult(Adv(adv.data))

AirNext ==
  \/ AirCompose \/ AirSend \/ AirListen \/ BurstStart \/ BurstHold \/ BurstStop
  \/ SendReturn \/ AirHear

SpecAir == AirInit /\ [][AirNext]_vars

\* Every parcel of the message has been transmitted and heard.
AirAllHeard ==
  /\ tx # 0
  /\ pcS = "idle"
  /\ Len(ingestLog) = Cardinality(DOMAIN AirBox)

\* The receiver published the completion of the original text.
AirCompleted ==
  \E k \in 1..Len(published) :
    /\ published[k].ev.type = BLE_EVT_MESSAGE_DONE
    /\ published[k].ev.data.msg_len = Len(AirTexts[tx])
    /\ published[k].ev.data.snippet = AirTexts[tx]

\* C38: every parcel of splitDataIntoParcels with the default chunk size goes
\* on air whole, the marker followed by the parcel text, and a receiver that
\* heard every transmitted parcel completes with the original text.
C38_ParcelsFitAirFrame ==
  /\ adv.on /\ tx # 0 => adv.data = <<MARKER>> \o snd.bytes
  /\ AirAllHeard => AirCompleted

\* ------------------------------------------------------------------------
\* SpecToken: callers that each subscribe once, keep the token they were
\* given and unsubscribe with it any number of times, among events
\* published and drained
\* ------------------------------------------------------------------------
MaxTokSubscribe == 3
MaxTokIngest == 1

\* The token that subscription number s was given.
TokenOf(s) == subLog[s].slot + 1

TokInit == InitAt(U32Zero)

\* A new caller subscribes; its subscription number is its place in subLog.
TokSubscribe == Len(subLog) < MaxTokSubscribe /\ ble_subscribe(1, 0)

\* The holder of subscription s calls unsubscribe with its token, the first
\* time or again.
TokUnsubscribe == \E s \in 1..Len(subLog) : ble_unsubscribe_by(s, TokenOf(s))

TokIngest == Len(ingestLog) < MaxTokIngest /\ onResult(Adv(P_HELLO))

TokTick == ble_tick

TokNext == TokSubscribe \/ TokUnsubscribe \/ TokIngest \/ TokTick

SpecToken == TokInit /\ [][TokNext]_vars

\* The subscriptions that this step removes from the table.
RemovedSubs == {slotSub[i] : i \in {j \in SubIdx : slotSub[j] # 0 /\ slotSub'[j] = 0}}

\* C39: an unsubscribe call with the token issued for a subscription removes
\* no other subscription; in particular a repeated call with a token that
\* was already unsubscribed removes no subscription that a later subscribe
\* created.
C39_TokenOwnership ==
  [][cons' # cons /\ "by" \in DOMAIN cons' => RemovedSubs \subseteq {cons'.by}]_vars

====
